---- MODULE Spec2Model ----
(***************************************************************************)
(* pup.ai: the multi-provider AI response pipeline.                        *)
(*                                                                         *)
(*   ContextManager   src/unnamed/part_005  (services/ai/context.ts)       *)
(*   AIResponseCache  src/src/services/ai/providers/gemini.ts:268-371      *)
(*                    (services/ai/cache.ts, on lru-cache ^11)             *)
(*   AIService        src/unnamed/part_007  (services/ai/index.ts)         *)
(*                                                                         *)
(* The specifications share the variables:                                 *)
(*   SpecCtx      the ContextManager driven directly by its callers        *)
(*   SpecCache    the AIResponseCache driven by get/set/clear/prune        *)
(*   Spec         the AIService: concurrent generateResponse calls, each   *)
(*                suspended only at its provider await                     *)
(*   FairAllFail  the AIService when every provider completion fails       *)
(*                                                                         *)
(* Texts are sequences of one-character strings, so that length, prefix    *)
(* and substring search are computed and not assumed.                      *)
(***************************************************************************)
EXTENDS Integers, Sequences, FiniteSets, TLC

VARIABLES
  cfg,              \* configuration fixed at construction
  now,              \* Date.now()
  ticks,            \* number of clock advances so far
  contexts,         \* ContextManager.contexts: key -> AIContext (keys present only)
  channelContexts,  \* ContextManager.channelContexts: channel -> messages
  appended,         \* history: per key, every message appended since the key was created
  providers,        \* AIService.providers, in insertion order
  activeProvider,   \* AIService.activeProvider (name, or NoProvider)
  calls,            \* generateResponse calls: position and locals
  cache,            \* the LRUCache, least recently used first
  useClock,         \* history: number of cache uses (set, successful get)
  lastCacheOp,      \* history (SpecCache): the last operation on the AIResponseCache
  lastDone,         \* history: the call that resolved in the very last operation, or 0
  lastOp,           \* history (SpecStore): the last operation on the ContextManager
  lastSwitch,       \* history: the last setActiveProvider call and its outcome
  gate,             \* history: the last evaluation of a search or grounding gate
  inbound,          \* the inbound chat messages and the events delivered for them
  command,          \* the /pup command handler: its position and locals
  search            \* a WebSearchService.search call: its position and locals

vars == <<cfg, now, ticks, contexts, channelContexts, appended, providers,
          activeProvider, calls, cache, useClock, lastCacheOp, lastDone, lastOp,
          lastSwitch, gate, inbound, command, search>>

ctxVars == <<contexts, channelContexts, appended, lastOp>>
svcVars == <<providers, activeProvider, calls, lastDone, lastSwitch>>
cacheVars == <<cache, useClock, lastCacheOp>>

----------------------------------------------------------------------------
(* Bounds of the exploration *)

MaxAppends == 3        \* SpecCtx: addMessage calls
MaxMessagesCfg == 2    \* SpecCtx: largest configured maxMessages
MaxTicks == 2          \* clock advances
MaxCacheUses == 4      \* SpecCache: set / successful get operations
MaxCalls == 2          \* Spec: generateResponse calls
MaxAttempts == 3       \* Spec: the per-call attempt counter saturates here
MaxStoreAppends == 2   \* SpecStore: addMessage calls of each user
MaxSweepAppends == 32  \* SpecSweep: addMessage calls
MaxDirect == 1         \* SpecChat: messages posted without addressing the bot
MaxChannelAppends == 52  \* SpecChannel: addMessage calls
MaxEvents == 1         \* SpecApp: inbound chat messages
MaxCommands == 1       \* SpecCommand: /pup commands
MaxGateWords == 3      \* SpecGate: words of a prompt that is not a fixture

(* Program constants *)

ChannelMax == 50            \* channel-wide history cap in addMessage
ServiceMaxTokens == 8000    \* maxTokens the AIService gives its ContextManager
KeyRecentMessages == 3      \* messages.slice(-3) in the cache key
KeyContentChars == 100      \* content.substring(0, 100) in the cache key
OneHour == 3600000          \* 60 * 60 * 1000
AppTtl == 300000            \* 5 * 60 * 1000
AppContextLimit == 50       \* contextLimit of the application
AppMaxSize == 1000          \* cache maxSize of the application
SweepKeep == 30             \* slice(-30) in cleanupOldContexts
DefaultMaxAge == 43200000   \* 12 * 60 * 60 * 1000, the default maxAge

----------------------------------------------------------------------------
(* Texts *)

RECURSIVE Rep(_, _)
Rep(c, n) == IF n = 0 THEN <<>> ELSE Append(Rep(c, n - 1), c)

Min(a, b) == IF a < b THEN a ELSE b

TextHi == <<"h", "i">>
TextYo == <<"y", "o">>
TextSnow == <<"S", "N", "o", "w">>
TextOk == <<"o", "k">>
TextNo == <<"n", "o">>
LongA == Append(Rep("x", KeyContentChars), "a")
LongB == Append(Rep("x", KeyContentChars), "b")

\* String.prototype.toLowerCase on one character (the /i flag of the patterns)
UpperToLower ==
  [A |-> "a", B |-> "b", C |-> "c", D |-> "d", E |-> "e", F |-> "f", G |-> "g",
   H |-> "h", I |-> "i", J |-> "j", K |-> "k", L |-> "l", M |-> "m", N |-> "n",
   O |-> "o", P |-> "p", Q |-> "q", R |-> "r", S |-> "s", T |-> "t", U |-> "u",
   V |-> "v", W |-> "w", X |-> "x", Y |-> "y", Z |-> "z"]

Lower(ch) == IF ch \in DOMAIN UpperToLower THEN UpperToLower[ch] ELSE ch

\* RegExp.test for a literal pattern with the i flag: a substring search
Contains(text, pat) ==
  \E i \in 1..(Len(text) - Len(pat) + 1) :
    \A j \in 1..Len(pat) : Lower(text[i + j - 1]) = pat[j]

\* String.prototype.substring(0, n)
Prefix(text, n) == SubSeq(text, 1, Min(n, Len(text)))

\* Array.prototype.slice(-n)
SliceLast(s, n) == IF Len(s) > n THEN SubSeq(s, Len(s) - n + 1, Len(s)) ELSE s

----------------------------------------------------------------------------
(* ContextManager *)

Channels == {"C1"}
DirectChannels == {"D1"}       \* channel ids that start with D
Users == {"U1", "U2"}
NoUser == "-"

getContextKey(channelId, userId) == <<channelId, userId>>

Keys == {getContextKey(ch, u) : ch \in Channels \cup DirectChannels, u \in Users}

NoMetadata == [hasChannelContext |-> FALSE, channelContext |-> <<>>, systemPrompt |-> FALSE]

NewContext(channelId, userId, isDirectMessage) ==
  [messages |-> <<>>, channel |-> channelId, userId |-> userId,
   isDirectMessage |-> isDirectMessage, metadata |-> NoMetadata]

\* the map after getContext: the key is created when absent
getContext(ctxs, channelId, userId, isDirectMessage) ==
  LET key == getContextKey(channelId, userId) IN
  IF key \in DOMAIN ctxs THEN ctxs
  ELSE [k \in DOMAIN ctxs \cup {key} |->
          IF k = key THEN NewContext(channelId, userId, isDirectMessage) ELSE ctxs[k]]

\* messages of the last hour of the channel-wide history
getChannelContext(chans, channelId, t) ==
  LET messages == IF channelId \in DOMAIN chans THEN chans[channelId] ELSE <<>>
      oneHourAgo == t - OneHour
      Recent(m) == m.timestamp >= oneHourAgo
  IN SelectSeq(messages, Recent)

estimatedTokens(message) == (Len(message.content) + 3) \div 4

RECURSIVE trimByTokenCountFrom(_, _, _, _)
\* the loop of trimByTokenCount at index i with totalTokens accumulated:
\* the number of messages kept
trimByTokenCountFrom(messages, i, totalTokens, maxTokens) ==
  IF i = 0 THEN 0
  ELSE IF totalTokens + estimatedTokens(messages[i]) <= maxTokens
       THEN 1 + trimByTokenCountFrom(messages, i - 1,
                                     totalTokens + estimatedTokens(messages[i]), maxTokens)
       ELSE 0

\* mutant: nothing is trimmed for the budget
trimByTokenCount_off(messages, maxTokens) == messages

trimByTokenCount(messages, maxTokens) ==
  SliceLast(messages, trimByTokenCountFrom(messages, Len(messages), 0, maxTokens))

\* mutant: keeps the oldest messages
trimToMaxMessages_oldest(messages, maxMessages) ==
  IF Len(messages) > maxMessages THEN SubSeq(messages, 1, maxMessages) ELSE messages

trimToMaxMessages(messages, maxMessages) ==
  IF Len(messages) > maxMessages THEN SliceLast(messages, maxMessages) ELSE messages

trimContext(messages, maxMessages, maxTokens) ==
  LET kept == trimToMaxMessages(messages, maxMessages) IN
  IF maxTokens # 0 THEN trimByTokenCount(kept, maxTokens) ELSE kept

\* mutant: the channel-wide list is never cut
addMessage_uncapped(ctxs, chans, channelId, userId, message, isDirectMessage, conf) ==
  LET key == getContextKey(channelId, userId)
      ctxs1 == getContext(ctxs, channelId, userId, isDirectMessage)
      pushed == Append(ctxs1[key].messages, message)
      chanOld == IF channelId \in DOMAIN chans THEN chans[channelId] ELSE <<>>
      trimmed == trimContext(pushed, conf.maxMessages, conf.maxTokens)
  IN [contexts |-> [ctxs1 EXCEPT ![key].messages = trimmed],
      channelContexts |-> [c \in DOMAIN chans \cup {channelId} |->
                             IF c = channelId THEN Append(chanOld, message)
                             ELSE chans[c]]]

\* [contexts, channelContexts] after addMessage
addMessage(ctxs, chans, channelId, userId, message, isDirectMessage, conf) ==
  LET key == getContextKey(channelId, userId)
      ctxs1 == getContext(ctxs, channelId, userId, isDirectMessage)
      pushed == Append(ctxs1[key].messages, message)
      chanOld == IF channelId \in DOMAIN chans THEN chans[channelId] ELSE <<>>
      channelMessages == Append(chanOld, message)
      trimmed == trimContext(pushed, conf.maxMessages, conf.maxTokens)
      chanNew == IF Len(channelMessages) > ChannelMax
                 THEN SliceLast(channelMessages, ChannelMax) ELSE channelMessages
  IN [contexts |-> [ctxs1 EXCEPT ![key].messages = trimmed],
      channelContexts |-> [c \in DOMAIN chans \cup {channelId} |->
                             IF c = channelId THEN chanNew ELSE chans[c]]]

\* mutant: every conversation of the channel is deleted
clearContext_channel(ctxs, channelId, userId) ==
  [k \in {k \in DOMAIN ctxs : k[1] # channelId} |-> ctxs[k]]

\* mutant: the conversation is emptied and stays in the store
clearContext_emptied(ctxs, channelId, userId) ==
  [k \in DOMAIN ctxs |->
     IF k = getContextKey(channelId, userId)
     THEN [ctxs[k] EXCEPT !.messages = <<>>] ELSE ctxs[k]]

clearContext(ctxs, channelId, userId) ==
  [k \in DOMAIN ctxs \ {getContextKey(channelId, userId)} |-> ctxs[k]]

\* the map after setMetadata(channelId, userId, {systemPrompt})
setMetadata(ctxs, channelId, userId) ==
  LET key == getContextKey(channelId, userId)
      ctxs1 == getContext(ctxs, channelId, userId, FALSE)
  IN [ctxs1 EXCEPT ![key].metadata.systemPrompt = TRUE]

\* the messages a sweep at time t keeps of a list
\* mutant: the count is not capped
sweepMessages_noCap(messages, t, maxAge) ==
  LET Young(m) == t - m.timestamp < maxAge IN SelectSeq(messages, Young)

sweepMessages(messages, t, maxAge) ==
  LET Young(m) == t - m.timestamp < maxAge
  IN SliceLast(SelectSeq(messages, Young), SweepKeep)

\* [contexts, channelContexts] after cleanupOldContexts(maxAge) at time t
cleanupOldContexts(ctxs, chans, t, maxAge) ==
  LET Expired(k) ==
        LET messages == ctxs[k].messages IN
        \/ messages = <<>>
        \/ t - messages[Len(messages)].timestamp > maxAge
      kept == {k \in DOMAIN ctxs : ~Expired(k)}
      chanKept == {c \in DOMAIN chans : sweepMessages(chans[c], t, maxAge) # <<>>}
  IN [contexts |-> [k \in kept |->
                      [ctxs[k] EXCEPT !.messages = sweepMessages(@, t, maxAge)]],
      channelContexts |-> [c \in chanKept |-> sweepMessages(chans[c], t, maxAge)]]

----------------------------------------------------------------------------
(* AIResponseCache over LRUCache({max, ttl, updateAgeOnGet: true}) *)

\* the default skip conditions
DefaultSkipPatterns ==
  { <<"w", "h", "a", "t", " ", "t", "i", "m", "e">>,
    <<"c", "u", "r", "r", "e", "n", "t", " ", "d", "a", "t", "e">>,
    <<"t", "o", "d", "a", "y">>,
    <<"n", "o", "w">>,
    <<"l", "a", "t", "e", "s", "t">>,
    <<"r", "e", "c", "e", "n", "t">>,
    <<"w", "e", "a", "t", "h", "e", "r">>,
    <<"r", "a", "n", "d", "o", "m">> }

\* the skipCache function the application configures
AppSkipPatterns ==
  { <<"w", "h", "a", "t", " ", "t", "i", "m", "e">>,
    <<"c", "u", "r", "r", "e", "n", "t">>,
    <<"t", "o", "d", "a", "y">>,
    <<"n", "o", "w">> }

shouldSkipCache(prompt, customSkip) ==
  IF customSkip
  THEN \E pat \in AppSkipPatterns : Contains(prompt, pat)
  ELSE \E pat \in DefaultSkipPatterns : Contains(prompt, pat)

RecentOf(messages) ==
  LET recent == SliceLast(messages, KeyRecentMessages) IN
  [i \in 1..Len(recent) |->
     [role |-> recent[i].role, content |-> Prefix(recent[i].content, KeyContentChars)]]

\* mutant: the recent messages are left out of the key
generateCacheKey_noRecent(prompt, context) ==
  [prompt |-> prompt, channel |-> context.channel,
   isDirectMessage |-> context.isDirectMessage,
   recentMessages |-> <<>>, metadata |-> context.metadata]

\* mutant: the requester is part of the key
generateCacheKey_perUser(prompt, context) ==
  [prompt |-> prompt, channel |-> context.channel,
   isDirectMessage |-> context.isDirectMessage,
   recentMessages |-> RecentOf(context.messages), metadata |-> context.metadata,
   userId |-> context.userId]

\* the data that is serialised and hashed; sha256 is taken to be collision-free
generateCacheKey(prompt, context) ==
  [prompt |-> prompt, channel |-> context.channel,
   isDirectMessage |-> context.isDirectMessage,
   recentMessages |-> RecentOf(context.messages), metadata |-> context.metadata]

NoResponse == [content |-> <<>>, provider |-> "none", cached |-> FALSE, timestamp |-> 0]

\* an entry of the LRUCache; start is the time its ttl counts from.  storedAt,
\* usedAt, useNo and srcMessages are history: the time of the set that wrote it,
\* the time and number of its last use, the conversation it was written for.
Entry(key, value, t, stamp, srcMessages) ==
  [key |-> key, value |-> value, start |-> t,
   storedAt |-> t, usedAt |-> t, useNo |-> stamp, srcMessages |-> srcMessages]

NoEntry == Entry(generateCacheKey(<<>>, NewContext("", "", FALSE)), NoResponse, 0, 0, <<>>)

IndexOf(c, key) ==
  IF \E i \in 1..Len(c) : c[i].key = key
  THEN CHOOSE i \in 1..Len(c) : c[i].key = key
  ELSE 0

RemoveAt(c, i) == SubSeq(c, 1, i - 1) \o SubSeq(c, i + 1, Len(c))

\* mutant: entries never go stale
LruIsStale_never(e, t, ttl) == FALSE

LruIsStale(e, t, ttl) == ttl > 0 /\ t - e.start > ttl

\* mutant: a get leaves the recency order alone
LruTouch_inPlace(c, i, t, stamp) ==
  [c EXCEPT ![i] = [@ EXCEPT !.start = t, !.usedAt = t, !.useNo = stamp]]

\* a successful get moves the entry to the most recently used end and, with
\* updateAgeOnGet, restarts its ttl
LruTouch(c, i, t, stamp) ==
  Append(RemoveAt(c, i), [c[i] EXCEPT !.start = t, !.usedAt = t, !.useNo = stamp])

\* LRUCache.get: [cache, hit, entry]; a stale entry is deleted and not returned
LruGet(c, key, t, ttl, stamp) ==
  LET i == IndexOf(c, key) IN
  IF i = 0 THEN [cache |-> c, hit |-> FALSE, entry |-> NoEntry]
  ELSE IF LruIsStale(c[i], t, ttl)
       THEN [cache |-> RemoveAt(c, i), hit |-> FALSE, entry |-> NoEntry]
       ELSE [cache |-> LruTouch(c, i, t, stamp), hit |-> TRUE, entry |-> c[i]]

\* the least recently used entry is evicted when the cache is full
LruMakeRoom(c, max) == IF Len(c) >= max THEN Tail(c) ELSE c

\* LRUCache.set
LruSet(c, entry, max) ==
  LET i == IndexOf(c, entry.key) IN
  IF i # 0 THEN Append(RemoveAt(c, i), entry)
  ELSE Append(LruMakeRoom(c, max), entry)

\* LRUCache.purgeStale
LruPurgeStale(c, t, ttl) ==
  LET Fresh(e) == ~LruIsStale(e, t, ttl) IN SelectSeq(c, Fresh)

\* AIResponseCache.get: [cache, hit, entry, response]
cacheGet(c, prompt, context, conf, t, stamp) ==
  IF shouldSkipCache(prompt, conf.customSkip)
  THEN [cache |-> c, hit |-> FALSE, entry |-> NoEntry, response |-> NoResponse]
  ELSE LET got == LruGet(c, generateCacheKey(prompt, context), t, conf.ttl, stamp) IN
       [cache |-> got.cache, hit |-> got.hit, entry |-> got.entry,
        response |-> IF got.hit THEN [got.entry.value EXCEPT !.cached = TRUE]
                     ELSE NoResponse]

\* mutant: set stores whatever the prompt
cacheSet_always(c, prompt, context, response, conf, t, stamp) ==
  LruSet(c, Entry(generateCacheKey(prompt, context), response, t, stamp,
                  context.messages), conf.maxSize)

\* AIResponseCache.set: the cache afterwards
cacheSet(c, prompt, context, response, conf, t, stamp) ==
  IF shouldSkipCache(prompt, conf.customSkip) THEN c
  ELSE LruSet(c, Entry(generateCacheKey(prompt, context), response, t, stamp,
                       context.messages), conf.maxSize)

----------------------------------------------------------------------------
(* PromptManager *)

\* a template is a sequence of pieces: literal text, or a placeholder {{var}}
Lit(text) == [var |-> "", text |-> text]
Var(name) == [var |-> name, text |-> <<"{{", name, "}}">>]

\* the default templates the generate path uses, their literal text shortened
\* to its first and last words
Templates ==
  [default |->
     [template |-> <<Lit(<<"Y", "o", "u", " ">>), Var("userName"), Lit(<<" ", "i", "n", " ">>),
                     Var("channelType"),
                     Lit(<<" ", "C", "u", "r", "r", "e", "n", "t", " ", "c", "o", "n", "t",
                           "e", "x", "t", ":", " ">>),
                     Var("context"), Lit(<<" ", "m", "e", "s", "s", "a", "g", "e", ":", " ">>),
                     Var("message")>>,
      variables |-> <<"userName", "channelType", "context", "message">>],
   direct_message |->
     [template |-> <<Lit(<<"Y", "o", "u", " ">>), Var("userName"),
                     Lit(<<" ", "c", "o", "n", "t", "e", "x", "t", ":", " ">>),
                     Var("context"), Lit(<<" ">>), Var("userName"),
                     Lit(<<" ", "s", "a", "y", "s", ":", " ">>), Var("message")>>,
      variables |-> <<"userName", "context", "message">>]]

\* variables[variable] || ''
ValueOf(variables, variable) ==
  IF variable \in DOMAIN variables THEN variables[variable] ELSE <<>>

RECURSIVE renderPieces(_, _, _)
\* the pieces of a template with every listed variable replaced by its value
renderPieces(pieces, listed, variables) ==
  IF pieces = <<>> THEN <<>>
  ELSE LET piece == Head(pieces)
           text == IF piece.var # "" /\ \E i \in 1..Len(listed) : listed[i] = piece.var
                   THEN ValueOf(variables, piece.var)
                   ELSE piece.text
       IN text \o renderPieces(Tail(pieces), listed, variables)

\* renderTemplate(templateId, variables) of a template that exists
renderTemplate(templateId, variables) ==
  renderPieces(Templates[templateId].template, Templates[templateId].variables, variables)

\* validateVariables(templateId, variables)
validateVariables(templateId, variables) ==
  IF templateId \notin DOMAIN Templates THEN [valid |-> FALSE, missing |-> <<>>]
  ELSE LET Missing(v) == ValueOf(variables, v) = <<>>
           missing == SelectSeq(Templates[templateId].variables, Missing)
       IN [valid |-> missing = <<>>, missing |-> missing]

----------------------------------------------------------------------------
(* Configuration *)

TokenChoices == {0, 1, 27}     \* maxTokens is optional: 0 is "not configured"
CacheSizes == {1, 2}           \* configured maxSize of the cache

NoProvider == "none"

Config(maxMessages, maxTokens, ttl, maxSize, customSkip) ==
  [maxMessages |-> maxMessages, maxTokens |-> maxTokens, ttl |-> ttl,
   maxSize |-> maxSize, customSkip |-> customSkip]

\* the last operation on the AIResponseCache: its arguments, the time, what a
\* get returned, and the entries a set removed
CacheOp(op, prompt, context, t, got, dropped) ==
  [op |-> op, prompt |-> prompt, messages |-> context.messages, at |-> t,
   hit |-> got.hit, entry |-> got.entry, response |-> got.response,
   dropped |-> dropped]

NoGot == [hit |-> FALSE, entry |-> NoEntry, response |-> NoResponse]

NoCacheOp == CacheOp("none", <<>>, NewContext("", "", FALSE), 0, NoGot, <<>>)

KeysIn(c) == {c[i].key : i \in 1..Len(c)}

\* the entries of c whose key is no longer in d
Dropped(c, d) == LET Gone(e) == e.key \notin KeysIn(d) IN SelectSeq(c, Gone)

\* what an upstream API call produces: a completion object of some shape
\* carrying a text, or a thrown vendor error with a status and a message;
\* revision is the revision of the OpenAI adapter that receives it
NoOutcome == [kind |-> "none", shape |-> "", text |-> <<>>, status |-> 0, message |-> <<>>,
              revision |-> ""]

\* the error a provider's generateResponse throws: raw when it is the vendor's
\* error object itself, else the category of the Error the adapter constructed
NoError == [category |-> "none", raw |-> FALSE]

\* options.templateId and options.templateVars when the caller gives none
NoTemplate == ""
NoTemplateVars == [userName |-> <<>>, channelType |-> <<>>, context |-> <<>>]

\* the variables renderTemplate receives: {...templateVars, message}
RenderVars(rec) ==
  [v \in DOMAIN rec.templateVars \cup {"message"} |->
     IF v = "message" THEN rec.message ELSE rec.templateVars[v]]

\* mutant: the raw message is the prompt, whatever the template
preparePrompt_raw(rec) == rec.message

\* the prompt generateResponse prepares: the rendered template when a template
\* is asked for, the message otherwise
preparePrompt(rec) ==
  IF rec.templateId # NoTemplate
  THEN renderTemplate(rec.templateId, RenderVars(rec))
  ELSE rec.message

\* a generateResponse call: pc is its position (idle, await, resolved, rejected),
\* message, channel and userId its arguments, prov the provider it awaits, and
\* content, provider and cached the response it resolved with.  attempts,
\* failedOn, failedActive, after and upstream are history: its provider
\* completions so far, the provider whose completion failed last, whether that
\* provider was the active one when it failed, the call this one immediately
\* followed, and the text the upstream API produced for it.  awaitedAt is the
\* time at which the provider was invoked; templateId and templateVars are its
\* options and prompt the prompt it prepared; outcome is what the upstream API
\* call of its last provider produced and error what that provider threw;
\* event and via are the inbound message and the handler the call was made for;
\* detached tells that the context object the call holds was deleted from the
\* store while the call awaited, and held is that object.
IdleCall == [pc |-> "idle", message |-> <<>>, channel |-> "", userId |-> "",
             prov |-> NoProvider, attempts |-> 0, failedOn |-> NoProvider,
             failedActive |-> FALSE, after |-> 0, upstream |-> <<>>, awaitedAt |-> 0,
             templateId |-> NoTemplate, templateVars |-> NoTemplateVars,
             prompt |-> <<>>, outcome |-> NoOutcome, error |-> NoError,
             event |-> 0, via |-> "none",
             detached |-> FALSE, held |-> NewContext("", "", FALSE),
             content |-> <<>>, provider |-> NoProvider, cached |-> FALSE]

CallIds == 1..MaxCalls

\* the state of the parts a specification does not drive
\* the last operation on the ContextManager: its name and arguments, the time,
\* the maps before it, what it returned, and the addMessage calls so far
StoreOp(op, key, t, maxAge, ctxs, chans, returned, appends) ==
  [op |-> op, key |-> key, at |-> t, maxAge |-> maxAge, before |-> ctxs,
   beforeChannels |-> chans, returned |-> returned, appends |-> appends]

NoStoreOp == StoreOp("none", <<"", "">>, 0, 0, <<>>, <<>>, <<>>, [u \in Users |-> 0])

CtxIdle ==
  /\ contexts = <<>>
  /\ channelContexts = <<>>
  /\ appended = [k \in Keys |-> <<>>]
  /\ lastOp = NoStoreOp

\* no setActiveProvider call since construction
NoSwitch == [op |-> "none", requested |-> NoProvider, threw |-> FALSE,
             activeBefore |-> NoProvider]

SvcIdle ==
  /\ providers = <<>>
  /\ activeProvider = NoProvider
  /\ calls = [c \in CallIds |-> IdleCall]
  /\ lastDone = 0
  /\ lastSwitch = NoSwitch

CacheIdle ==
  /\ cache = <<>>
  /\ useClock = 0
  /\ lastCacheOp = NoCacheOp

\* no gate evaluated yet
NoGate == [fn |-> "none", prompt |-> <<>>, decision |-> FALSE]

EventIds == 1..MaxEvents

\* an inbound chat message nothing was delivered for yet; message and mention
\* tell whether its message event and its app_mention event were handled, and
\* said counts the replies a handler posted without calling generateResponse
NoEvent == [sent |-> FALSE, author |-> "", channel |-> "", text |-> <<>>,
            message |-> FALSE, mention |-> FALSE, said |-> 0]

InboundIdle == inbound = [e \in EventIds |-> NoEvent]

\* the /pup handler: pc is its position (idle, or where a test-gemini command
\* is suspended: saying, await, reporting), user, channel, sub and arg the
\* command, call the generateResponse call it made, wasGemini its local.
\* activeBefore, outcome and done are history: the active provider when the
\* command in progress was issued, how the last command ended, and the
\* commands so far.
NoCommand == [pc |-> "idle", user |-> "", channel |-> "", sub |-> "none", arg |-> "none",
              call |-> 0, wasGemini |-> FALSE, activeBefore |-> "none",
              outcome |-> "none", done |-> 0]

\* a WebSearchService.search call: pc is its position (idle, the backend it
\* awaits, fallback, returned, threw), query and numResults its arguments
\* (numResults 0: not given), keys the configured backends, results what it
\* holds or returned; tried is history: the backends called, in order, with
\* whether each returned results.
NoSearch == [pc |-> "idle", query |-> <<>>, numResults |-> 0, keys |-> {},
             results |-> <<>>, tried |-> <<>>, caught |-> FALSE]

AppIdle ==
  /\ gate = NoGate
  /\ InboundIdle
  /\ command = NoCommand
  /\ search = NoSearch

----------------------------------------------------------------------------
(* The clock *)

Tick(d) ==
  /\ ticks < MaxTicks
  /\ now' = now + d
  /\ ticks' = ticks + 1

----------------------------------------------------------------------------
(* SpecCtx: the ContextManager and its callers *)

\* the (role, content) pairs the callers append
CtxMessages == {<<"user", TextHi>>, <<"assistant", TextOk>>, <<"user", LongA>>}

\* addMessage calls so far (the channel-wide history records each of them)
TotalAppended ==
  IF "C1" \in DOMAIN channelContexts THEN Len(channelContexts["C1"]) ELSE 0

InitCtx ==
  /\ \E mm \in 1..MaxMessagesCfg, mt \in TokenChoices :
       cfg = Config(mm, mt, AppTtl, 1, FALSE)
  /\ now = 0
  /\ ticks = 0
  /\ CtxIdle
  /\ SvcIdle
  /\ CacheIdle
  /\ AppIdle

CtxGetContext(ch, u) ==
  /\ getContextKey(ch, u) \notin DOMAIN contexts
  /\ contexts' = getContext(contexts, ch, u, FALSE)
  /\ UNCHANGED <<cfg, command, search, gate, inbound, now, ticks, channelContexts, appended, lastOp, svcVars, cacheVars>>

CtxAddMessage(ch, u, role, content) ==
  LET key == getContextKey(ch, u)
      message == [role |-> role, content |-> content, timestamp |-> now,
                  userId |-> IF role = "user" THEN u ELSE NoUser]
      after == addMessage(contexts, channelContexts, ch, u, message, FALSE, cfg)
  IN /\ TotalAppended < MaxAppends
     /\ contexts' = after.contexts
     /\ channelContexts' = after.channelContexts
     /\ appended' = [appended EXCEPT ![key] = Append(@, message)]
     /\ UNCHANGED <<cfg, command, search, gate, inbound, now, ticks, lastOp, svcVars, cacheVars>>

CtxClearContext(ch, u) ==
  /\ getContextKey(ch, u) \in DOMAIN contexts
  /\ contexts' = clearContext(contexts, ch, u)
  /\ appended' = [appended EXCEPT ![getContextKey(ch, u)] = <<>>]
  /\ UNCHANGED <<cfg, command, search, gate, inbound, now, ticks, channelContexts, lastOp, svcVars, cacheVars>>

NextCtx ==
  \/ \E ch \in Channels, u \in Users : CtxGetContext(ch, u)
  \/ \E ch \in Channels, u \in Users, m \in CtxMessages :
       CtxAddMessage(ch, u, m[1], m[2])
  \/ \E ch \in Channels, u \in Users : CtxClearContext(ch, u)

SpecCtx == InitCtx /\ [][NextCtx]_vars

\* s is a suffix of t
IsSuffix(s, t) ==
  /\ Len(s) <= Len(t)
  /\ s = SubSeq(t, Len(t) - Len(s) + 1, Len(t))

\* C1. Context bounding: every conversation holds at most maxMessages messages,
\* and they are the most recent of the appended messages, in their order.
C1_ContextBounded ==
  \A k \in DOMAIN contexts :
    /\ Len(contexts[k].messages) <= cfg.maxMessages
    /\ IsSuffix(contexts[k].messages, appended[k])

\* more messages were appended than the bound allows, and the oldest is gone
C1_Witness ==
  \E k \in DOMAIN contexts :
    /\ Len(appended[k]) > cfg.maxMessages
    /\ Len(contexts[k].messages) = cfg.maxMessages
    /\ appended[k][1] # contexts[k].messages[1]

RECURSIVE TokenSum(_)
\* the estimated tokens of a list of messages
TokenSum(messages) ==
  IF messages = <<>> THEN 0
  ELSE estimatedTokens(Head(messages)) + TokenSum(Tail(messages))

\* C17. Token budget: when maxTokens is configured, the estimated tokens of every
\* conversation sum to at most maxTokens, and the conversation is the longest
\* suffix of its message-bounded history that fits the budget.
C17_TokenBudget ==
  cfg.maxTokens # 0 =>
    \A k \in DOMAIN contexts :
      LET kept == contexts[k].messages
          bounded == SliceLast(appended[k], cfg.maxMessages)
      IN /\ TokenSum(kept) <= cfg.maxTokens
         /\ IsSuffix(kept, bounded)
         /\ Len(kept) < Len(bounded) =>
              TokenSum(kept) + estimatedTokens(bounded[Len(bounded) - Len(kept)])
                > cfg.maxTokens

\* the budget, not the message bound, has removed a message and kept another
C17_Witness ==
  /\ cfg.maxTokens # 0
  /\ \E k \in DOMAIN contexts :
       /\ contexts[k].messages # <<>>
       /\ Len(contexts[k].messages) < Len(SliceLast(appended[k], cfg.maxMessages))

----------------------------------------------------------------------------
(* SpecStore: the ContextManager of the AIService over time: appends, reads, *)
(* clears, the periodic sweep and the clock                                   *)

InitStore ==
  /\ cfg = Config(AppContextLimit, ServiceMaxTokens, AppTtl, AppMaxSize, TRUE)
  /\ now = 0
  /\ ticks = 0
  /\ CtxIdle
  /\ SvcIdle
  /\ CacheIdle
  /\ AppIdle

\* a caller appends a message stamped Date.now()
StoreAppend(ch, u) ==
  LET message == [role |-> "user", content |-> TextHi, timestamp |-> now, userId |-> u]
      after == addMessage(contexts, channelContexts, ch, u, message, FALSE, cfg)
  IN /\ contexts' = after.contexts
     /\ channelContexts' = after.channelContexts
     /\ lastOp' = StoreOp("addMessage", getContextKey(ch, u), now, 0, <<>>, <<>>, <<>>,
                          [lastOp.appends EXCEPT ![u] = @ + 1])
     /\ UNCHANGED <<cfg, command, search, gate, inbound, now, ticks, appended, svcVars, cacheVars>>

StoreGetContext(ch, u) ==
  LET after == getContext(contexts, ch, u, FALSE) IN
  /\ contexts' = after
  /\ lastOp' = StoreOp("getContext", getContextKey(ch, u), now, 0, contexts, <<>>,
                       <<after[getContextKey(ch, u)]>>, lastOp.appends)
  /\ UNCHANGED <<cfg, command, search, gate, inbound, now, ticks, channelContexts, appended, svcVars, cacheVars>>

StoreGetChannelContext(ch) ==
  /\ lastOp' = StoreOp("getChannelContext", <<ch, "">>, now, 0, <<>>, <<>>,
                       getChannelContext(channelContexts, ch, now), lastOp.appends)
  /\ UNCHANGED <<cfg, command, search, gate, inbound, now, ticks, contexts, channelContexts, appended, svcVars, cacheVars>>

StoreClearContext(ch, u) ==
  /\ contexts' = clearContext(contexts, ch, u)
  /\ lastOp' = StoreOp("clearContext", getContextKey(ch, u), now, 0, contexts, <<>>,
                       <<>>, lastOp.appends)
  /\ UNCHANGED <<cfg, command, search, gate, inbound, now, ticks, channelContexts, appended, svcVars, cacheVars>>

StoreSetMetadata(ch, u) ==
  /\ contexts' = setMetadata(contexts, ch, u)
  /\ lastOp' = StoreOp("setMetadata", getContextKey(ch, u), now, 0, <<>>, <<>>, <<>>,
                       lastOp.appends)
  /\ UNCHANGED <<cfg, command, search, gate, inbound, now, ticks, channelContexts, appended, svcVars, cacheVars>>

\* the hourly timer and AIService.cleanup call the sweep with the default maxAge
StoreCleanup ==
  LET after == cleanupOldContexts(contexts, channelContexts, now, DefaultMaxAge) IN
  /\ contexts' = after.contexts
  /\ channelContexts' = after.channelContexts
  /\ lastOp' = StoreOp("cleanupOldContexts", <<"", "">>, now, DefaultMaxAge, contexts,
                       channelContexts, <<>>, lastOp.appends)
  /\ UNCHANGED <<cfg, command, search, gate, inbound, now, ticks, appended, svcVars, cacheVars>>

StoreTick(d) ==
  /\ Tick(d)
  /\ lastOp' = StoreOp("none", <<"", "">>, 0, 0, <<>>, <<>>, <<>>, lastOp.appends)
  /\ UNCHANGED <<cfg, command, search, gate, inbound, contexts, channelContexts, appended, svcVars, cacheVars>>

StoreAddMessage(ch, u) ==
  /\ lastOp.appends[u] < MaxStoreAppends
  /\ StoreAppend(ch, u)

NextStore ==
  \/ \E ch \in Channels, u \in Users : StoreAddMessage(ch, u)
  \/ \E ch \in Channels, u \in Users : StoreGetContext(ch, u)
  \/ \E ch \in Channels : StoreGetChannelContext(ch)
  \/ \E ch \in Channels, u \in Users : StoreClearContext(ch, u)
  \/ \E ch \in Channels, u \in Users : StoreSetMetadata(ch, u)
  \/ StoreTick(OneHour)

SpecStore == InitStore /\ [][NextStore]_vars

\* C19. Clear: right after clearContext(channelId, userId) the store holds no
\* context for the key, and a getContext that finds no context for its key
\* returns, and stores, a context with no messages and no metadata.
C19_Clear ==
  /\ lastOp.op = "clearContext" => lastOp.key \notin DOMAIN contexts
  /\ (lastOp.op = "getContext" /\ lastOp.key \notin DOMAIN lastOp.before) =>
       /\ lastOp.returned[1].messages = <<>>
       /\ lastOp.returned[1].metadata = NoMetadata
       /\ contexts[lastOp.key] = lastOp.returned[1]

\* a conversation with messages and metadata has just been cleared
C19_Witness ==
  /\ lastOp.op = "clearContext"
  /\ lastOp.key \in DOMAIN lastOp.before
  /\ lastOp.before[lastOp.key].messages # <<>>
  /\ lastOp.before[lastOp.key].metadata # NoMetadata
  /\ lastOp.key \notin DOMAIN contexts

----------------------------------------------------------------------------
(* SpecSweep: the periodic sweep over conversations long enough to reach its *)
(* cap on the number of messages                                              *)

\* one user writes; the other only opens a conversation
SweepWriters == {"U1"}
SweepReaders == {"U2"}

SweepAddMessage(ch, u) ==
  /\ lastOp.appends[u] < MaxSweepAppends
  /\ StoreAppend(ch, u)

NextSweep ==
  \/ \E ch \in Channels, u \in SweepWriters : SweepAddMessage(ch, u)
  \/ \E ch \in Channels, u \in SweepReaders : StoreGetContext(ch, u)
  \/ StoreCleanup
  \/ StoreTick(DefaultMaxAge)

SpecSweep == InitStore /\ [][NextSweep]_vars

\* the messages of a list younger than maxAge at time t
YoungerThan(messages, t, maxAge) ==
  LET Young(m) == t - m.timestamp < maxAge IN SelectSeq(messages, Young)

\* C11. Eviction: after cleanupOldContexts(maxAge) at time now every context whose
\* last message is older than maxAge is absent, and every surviving context holds
\* only messages younger than maxAge, at most 30 of them, the most recent ones in
\* their original order.
C11_Eviction ==
  lastOp.op = "cleanupOldContexts" =>
    /\ \A k \in DOMAIN lastOp.before :
         LET messages == lastOp.before[k].messages IN
         (/\ messages # <<>>
          /\ lastOp.at - messages[Len(messages)].timestamp > lastOp.maxAge)
           => k \notin DOMAIN contexts
    /\ \A k \in DOMAIN contexts :
         LET kept == contexts[k].messages
             young == YoungerThan(lastOp.before[k].messages, lastOp.at, lastOp.maxAge)
         IN /\ k \in DOMAIN lastOp.before
            /\ \A i \in 1..Len(kept) : lastOp.at - kept[i].timestamp < lastOp.maxAge
            /\ Len(kept) <= SweepKeep
            /\ Len(kept) = Min(SweepKeep, Len(young))
            /\ IsSuffix(kept, young)

\* a sweep removed a message for its age and others for the cap
C11_Witness ==
  /\ lastOp.op = "cleanupOldContexts"
  /\ \E k \in DOMAIN contexts :
       LET messages == lastOp.before[k].messages
           young == YoungerThan(messages, lastOp.at, lastOp.maxAge)
       IN /\ Len(young) < Len(messages)
          /\ Len(young) > SweepKeep
          /\ Len(contexts[k].messages) = SweepKeep

\* C12. Eviction idempotence: a second cleanupOldContexts(maxAge) at the instant
\* of the first leaves the per-user context map and the channel-wide map as the
\* first left them.
C12_SweepIdempotent ==
  [][(/\ lastOp.op = "cleanupOldContexts"
      /\ lastOp'.op = "cleanupOldContexts"
      /\ lastOp'.at = lastOp.at
      /\ lastOp'.maxAge = lastOp.maxAge)
       => (contexts' = contexts /\ channelContexts' = channelContexts)]_vars

----------------------------------------------------------------------------
(* SpecCache: the AIResponseCache and its callers *)

UserMsg(content) == [role |-> "user", content |-> content, timestamp |-> 0, userId |-> "U1"]

ContextOf(messages) == [NewContext("C1", "U1", FALSE) EXCEPT !.messages = messages]

CachePrompts == {TextHi, TextYo, TextSnow}

\* conversations the cache is asked about: two that differ only past the first
\* 100 characters of their last message, and one longer than three messages
CacheContexts ==
  { ContextOf(<<UserMsg(LongA)>>),
    ContextOf(<<UserMsg(LongB)>>),
    ContextOf(<<UserMsg(TextYo), UserMsg(TextHi), UserMsg(TextHi), UserMsg(TextHi)>>) }

InitCache ==
  /\ \E ms \in CacheSizes :
       cfg = Config(AppContextLimit, ServiceMaxTokens, AppTtl, ms, FALSE)
  /\ now = 0
  /\ ticks = 0
  /\ CtxIdle
  /\ SvcIdle
  /\ CacheIdle
  /\ AppIdle

CacheGet(prompt, context) ==
  LET got == cacheGet(cache, prompt, context, cfg, now, useClock + 1) IN
  /\ useClock < MaxCacheUses
  /\ cache' = got.cache
  /\ useClock' = IF got.hit THEN useClock + 1 ELSE useClock
  /\ lastCacheOp' = CacheOp("get", prompt, context, now, got, <<>>)
  /\ UNCHANGED <<cfg, command, search, gate, inbound, now, ticks, ctxVars, svcVars>>

CacheSet(prompt, context, content) ==
  LET response == [content |-> content, provider |-> "openai", cached |-> FALSE,
                   timestamp |-> now]
      after == cacheSet(cache, prompt, context, response, cfg, now, useClock + 1)
  IN /\ useClock < MaxCacheUses
     /\ cache' = after
     /\ useClock' = useClock + 1
     /\ lastCacheOp' = CacheOp("set", prompt, context, now, NoGot, Dropped(cache, after))
     /\ UNCHANGED <<cfg, command, search, gate, inbound, now, ticks, ctxVars, svcVars>>

CacheClear ==
  /\ cache' = <<>>
  /\ lastCacheOp' = NoCacheOp
  /\ UNCHANGED <<cfg, command, search, gate, inbound, now, ticks, useClock, ctxVars, svcVars>>

CachePrune ==
  /\ cache' = LruPurgeStale(cache, now, cfg.ttl)
  /\ lastCacheOp' = NoCacheOp
  /\ UNCHANGED <<cfg, command, search, gate, inbound, now, ticks, useClock, ctxVars, svcVars>>

CacheTick ==
  /\ Tick(cfg.ttl)
  /\ lastCacheOp' = NoCacheOp
  /\ UNCHANGED <<cfg, command, search, gate, inbound, cache, useClock, ctxVars, svcVars>>

NextCache ==
  \/ \E p \in CachePrompts, x \in CacheContexts : CacheGet(p, x)
  \/ \E p \in CachePrompts, x \in CacheContexts : CacheSet(p, x, TextOk)
  \/ CacheClear
  \/ CachePrune
  \/ CacheTick

SpecCache == InitCache /\ [][NextCache]_vars

\* C7. Skip predicate: a prompt the skip predicate flags is never answered from
\* the cache, and the cache never holds an entry written for such a prompt.
C7_SkipNeverCached ==
  /\ \A i \in 1..Len(cache) : ~shouldSkipCache(cache[i].key.prompt, cfg.customSkip)
  /\ (lastCacheOp.op = "get" /\ shouldSkipCache(lastCacheOp.prompt, cfg.customSkip))
       => ~lastCacheOp.hit

\* a set for a flagged prompt has just run on a cache that holds other entries
C7_Witness ==
  /\ lastCacheOp.op = "set"
  /\ shouldSkipCache(lastCacheOp.prompt, cfg.customSkip)
  /\ cache # <<>>

\* C8 as claimed. TTL expiry: get never returns an entry more than ttl after the
\* set that stored it.
C8_TtlSinceSet ==
  (lastCacheOp.op = "get" /\ lastCacheOp.hit)
    => lastCacheOp.at - lastCacheOp.entry.storedAt <= cfg.ttl

\* C8 as amended. get never returns an entry more than ttl after it was last
\* stored by set or last returned by get.
C8_TtlSinceLastUse ==
  (lastCacheOp.op = "get" /\ lastCacheOp.hit)
    => lastCacheOp.at - lastCacheOp.entry.usedAt <= cfg.ttl

\* an entry is returned later than ttl after the set that stored it
C8_Witness ==
  /\ lastCacheOp.op = "get"
  /\ lastCacheOp.hit
  /\ lastCacheOp.at - lastCacheOp.entry.storedAt > cfg.ttl

\* C9. Cache size bound: the cache never holds more than maxSize entries, and a
\* set that removes an entry removes exactly the least recently used one.
C9_BoundedLru ==
  /\ Len(cache) <= cfg.maxSize
  /\ (lastCacheOp.op = "set" /\ lastCacheOp.dropped # <<>>) =>
       /\ Len(lastCacheOp.dropped) = 1
       /\ Len(cache) = cfg.maxSize
       /\ \A i \in 1..Len(cache) : cache[i].useNo > lastCacheOp.dropped[1].useNo

\* a set evicted an entry while an entry stored before it, and read since, stays
C9_Witness ==
  /\ lastCacheOp.op = "set"
  /\ lastCacheOp.dropped # <<>>
  /\ \E i \in 1..Len(cache) : cache[i].storedAt < lastCacheOp.dropped[1].storedAt

\* role and full text of the last three messages
FullRecent(messages) ==
  LET recent == SliceLast(messages, KeyRecentMessages) IN
  [i \in 1..Len(recent) |-> [role |-> recent[i].role, content |-> recent[i].content]]

\* C10 as claimed. Fingerprint separation: a response cached for one conversation
\* is never returned for a conversation whose last three messages differ in role
\* or text.
C10_SeparatesFullText ==
  (lastCacheOp.op = "get" /\ lastCacheOp.hit)
    => FullRecent(lastCacheOp.messages) = FullRecent(lastCacheOp.entry.srcMessages)

\* C10 as amended. Conversations whose last three messages differ in role or in
\* the first 100 characters of their text have different keys, and a response
\* cached for one is never returned for the other.
C10_SeparatesPrefix ==
  /\ \A p \in CachePrompts, x \in CacheContexts, y \in CacheContexts :
       RecentOf(x.messages) # RecentOf(y.messages)
         => generateCacheKey(p, x) # generateCacheKey(p, y)
  /\ (lastCacheOp.op = "get" /\ lastCacheOp.hit)
       => RecentOf(lastCacheOp.messages) = RecentOf(lastCacheOp.entry.srcMessages)

\* a get misses although the cache holds a response to the same prompt, written
\* for a conversation with other recent messages
C10_Witness ==
  /\ lastCacheOp.op = "get"
  /\ ~lastCacheOp.hit
  /\ \E i \in 1..Len(cache) :
       /\ cache[i].key.prompt = lastCacheOp.prompt
       /\ RecentOf(cache[i].srcMessages) # RecentOf(lastCacheOp.messages)

----------------------------------------------------------------------------
(* Spec: the AIService *)

ProviderOrder == <<"openai", "anthropic", "gemini">>

\* the credentials present at startup, and the configured defaultProvider
ConfiguredChoices ==
  {{}, {"openai"}, {"openai", "anthropic"}, {"openai", "anthropic", "gemini"}}
DefaultChoices == {"openai", "gemini"}

AppHasSystemPrompt == TRUE     \* the application configures a systemPrompt

SvcMessages == {TextHi, TextSnow}
SvcResponses == {TextOk, TextNo}

\* texts an upstream completion carries: SvcResponses, or no text at all
SvcUpstream == SvcResponses \cup {<<>>}

\* stands for 'I need a moment to process that request. Please try again.'
OpenAIFallbackText == <<"r", "e", "t", "r", "y">>

\* the content of the AIResponse a provider builds from the upstream text
providerContent(prov, upstream) ==
  IF prov = "openai" /\ upstream = <<>> THEN OpenAIFallbackText ELSE upstream

\* providers are registered in a fixed order, each when configured and available
initializeProviders(configured) ==
  LET Registered(name) == name \in configured IN SelectSeq(ProviderOrder, Registered)

Range(seq) == {seq[i] : i \in 1..Len(seq)}

\* mutant: the constructor falls back to the last registered provider
InitialProvider_last(provs, defaultProvider) ==
  IF defaultProvider \in Range(provs) THEN defaultProvider
  ELSE IF Len(provs) > 0 THEN provs[Len(provs)]
  ELSE NoProvider

\* the constructor's choice of the active provider
InitialProvider(provs, defaultProvider) ==
  IF defaultProvider \in Range(provs) THEN defaultProvider
  ELSE IF Len(provs) > 0 THEN provs[1]
  ELSE NoProvider

\* mutant: the active provider is not excluded
getFallbackProvider_any(provs, active) ==
  IF Len(provs) > 0 THEN provs[1] ELSE NoProvider

\* the first registered provider other than the active one; registered
\* providers stay available, their credentials never change
getFallbackProvider(provs, active) ==
  IF \E i \in 1..Len(provs) : provs[i] # active
  THEN provs[CHOOSE i \in 1..Len(provs) :
               /\ provs[i] # active
               /\ \A j \in 1..(i - 1) : provs[j] = active]
  ELSE NoProvider

Bump(n) == IF n < MaxAttempts THEN n + 1 ELSE n

\* the AIServiceConfig: the application's settings and a defaultProvider
ServiceConfig(defaultProvider) ==
  [maxMessages |-> AppContextLimit, maxTokens |-> ServiceMaxTokens, ttl |-> AppTtl,
   maxSize |-> AppMaxSize, customSkip |-> TRUE, defaultProvider |-> defaultProvider]

Init ==
  /\ now = 0
  /\ ticks = 0
  /\ CtxIdle
  /\ CacheIdle
  /\ AppIdle
  /\ \E configured \in ConfiguredChoices, defaultProvider \in DefaultChoices :
       /\ cfg = ServiceConfig(defaultProvider)
       /\ providers = initializeProviders(configured)
       /\ activeProvider = InitialProvider(providers, defaultProvider)
  /\ calls = [c \in CallIds |-> IdleCall]
  /\ lastDone = 0
  /\ lastSwitch = NoSwitch

\* mutant: a cache hit appends the exchange to the conversation
ContextsAfterHit_appended(ctxs, key, rec, response) ==
  [ctxs EXCEPT ![key].messages =
     @ \o <<[role |-> "user", content |-> rec.message, timestamp |-> now,
              userId |-> rec.userId],
            [role |-> "assistant", content |-> response.content,
             timestamp |-> response.timestamp, userId |-> NoUser]>>]

\* the conversations after a cache hit: the cached response is returned at
\* once, nothing is appended
ContextsAfterHit(ctxs, key, rec, response) == ctxs

\* generateResponse from its entry to its first suspension, for call c with
\* locals rec, when this.activeProvider is active: it rejects, returns the
\* cached response, or invokes the provider and awaits it
EnterFrom(c, rec, active, ctxs, chans) ==
  IF active = NoProvider
  THEN /\ calls' = [calls EXCEPT ![c] = [rec EXCEPT !.pc = "rejected"]]
       /\ lastDone' = 0
       /\ contexts' = ctxs
       /\ UNCHANGED <<cache, useClock>>
  ELSE
    LET key == getContextKey(rec.channel, rec.userId)
        ctxs1 == getContext(ctxs, rec.channel, rec.userId, FALSE)
        channelMessages == getChannelContext(chans, rec.channel, now)
        meta1 == IF Len(channelMessages) > 0
                 THEN [ctxs1[key].metadata EXCEPT !.hasChannelContext = TRUE,
                                                  !.channelContext = channelMessages]
                 ELSE ctxs1[key].metadata
        meta2 == IF AppHasSystemPrompt THEN [meta1 EXCEPT !.systemPrompt = TRUE] ELSE meta1
        ctxs2 == [ctxs1 EXCEPT ![key].metadata = meta2]
        templated == rec.templateId # NoTemplate
    IN IF templated /\ rec.templateId \notin DOMAIN Templates
       THEN \* renderTemplate throws, outside the try block
            /\ contexts' = ctxs2
            /\ calls' = [calls EXCEPT ![c] = [rec EXCEPT !.pc = "rejected"]]
            /\ lastDone' = 0
            /\ UNCHANGED <<cache, useClock>>
       ELSE
         LET prompt == preparePrompt(rec)
             got == cacheGet(cache, prompt, ctxs2[key], cfg, now, useClock + 1)
         IN /\ contexts' = IF got.hit
                           THEN ContextsAfterHit(ctxs2, key, rec, got.response)
                           ELSE ctxs2
            /\ cache' = got.cache
            /\ useClock' = IF got.hit THEN useClock + 1 ELSE useClock
            /\ IF got.hit
               THEN /\ calls' = [calls EXCEPT ![c] =
                                   [rec EXCEPT !.pc = "resolved", !.prompt = prompt,
                                               !.content = got.response.content,
                                               !.provider = got.response.provider,
                                               !.cached = TRUE]]
                    /\ lastDone' = c
               ELSE /\ calls' = [calls EXCEPT ![c] =
                                   [rec EXCEPT !.pc = "await", !.prompt = prompt,
                                               !.prov = active, !.attempts = Bump(@),
                                               !.awaitedAt = now, !.detached = FALSE]]
                    /\ lastDone' = 0

\* generateResponse entered with the ContextManager as it is
Enter(c, rec, active) == EnterFrom(c, rec, active, contexts, channelContexts)

\* a caller invokes generateResponse(message, channelId, userId)
Start(c, message, ch, u) ==
  /\ calls[c].pc = "idle"
  /\ \A d \in CallIds : d < c => calls[d].pc # "idle"
  /\ Enter(c, [calls[c] EXCEPT !.message = message, !.channel = ch, !.userId = u,
                               !.after = lastDone], activeProvider)
  /\ UNCHANGED <<cfg, command, search, gate, inbound, now, ticks, channelContexts, appended, providers,
                 activeProvider, lastCacheOp, lastOp, lastSwitch>>

\* a caller invokes generateResponse(message, channelId, userId, {templateId,
\* templateVars})
StartTemplate(c, message, ch, u, templateId, templateVars) ==
  /\ calls[c].pc = "idle"
  /\ \A d \in CallIds : d < c => calls[d].pc # "idle"
  /\ Enter(c, [calls[c] EXCEPT !.message = message, !.channel = ch, !.userId = u,
                               !.after = lastDone, !.templateId = templateId,
                               !.templateVars = templateVars], activeProvider)
  /\ UNCHANGED <<cfg, command, search, gate, inbound, now, ticks, channelContexts, appended, providers,
                 activeProvider, lastCacheOp, lastOp, lastSwitch>>

\* the two addMessage calls of the success path: [contexts, channelContexts]
\* mutant: the exchange is put in front of the conversation
appendExchange_front(ctxs, chans, channelId, userId, userMessage, reply, conf) ==
  LET key == getContextKey(channelId, userId)
      a1 == addMessage(ctxs, chans, channelId, userId, userMessage, FALSE, conf)
      a2 == addMessage(a1.contexts, a1.channelContexts, channelId, userId, reply, FALSE,
                       conf)
  IN [contexts |-> [a2.contexts EXCEPT ![key].messages =
                      <<userMessage, reply>> \o ctxs[key].messages],
      channelContexts |-> a2.channelContexts]

\* mutant: the assistant response is appended before the user message
appendExchange_replyFirst(ctxs, chans, channelId, userId, userMessage, reply, conf) ==
  LET a1 == addMessage(ctxs, chans, channelId, userId, reply, FALSE, conf)
  IN addMessage(a1.contexts, a1.channelContexts, channelId, userId, userMessage, FALSE, conf)

appendExchange(ctxs, chans, channelId, userId, userMessage, reply, conf) ==
  LET a1 == addMessage(ctxs, chans, channelId, userId, userMessage, FALSE, conf)
  IN addMessage(a1.contexts, a1.channelContexts, channelId, userId, reply, FALSE, conf)

\* the upstream completion of the awaited provider succeeds with text upstream.
\* The provider stamps its response with Date.now() when it builds it, at some
\* time from its invocation to the resumption of generateResponse; the user
\* message is stamped at the resumption.
SettleOk(c, upstream, outcome) ==
  \E stampedAt \in {calls[c].awaitedAt, now} :
    LET rec == calls[c]
        key == getContextKey(rec.channel, rec.userId)
        response == [content |-> providerContent(rec.prov, upstream),
                     provider |-> rec.prov, cached |-> FALSE, timestamp |-> stampedAt]
        userMessage == [role |-> "user", content |-> rec.message, timestamp |-> now,
                        userId |-> rec.userId]
        reply == [role |-> "assistant", content |-> response.content,
                  timestamp |-> response.timestamp, userId |-> NoUser]
        context == IF rec.detached THEN rec.held ELSE contexts[key]
        cache1 == cacheSet(cache, rec.prompt, context, response, cfg, now,
                           useClock + 1)
        a2 == appendExchange(contexts, channelContexts, rec.channel, rec.userId,
                             userMessage, reply, cfg)
    IN /\ rec.pc = "await"
       /\ cache' = cache1
       /\ useClock' = useClock + 1
       /\ contexts' = a2.contexts
       /\ channelContexts' = a2.channelContexts
       /\ appended' = [appended EXCEPT ![key] = @ \o <<userMessage, reply>>]
       /\ calls' = [calls EXCEPT ![c] = [rec EXCEPT !.pc = "resolved",
                                                    !.outcome = outcome,
                                                    !.error = NoError,
                                                    !.upstream = upstream,
                                                    !.content = response.content,
                                                    !.provider = response.provider,
                                                    !.cached = FALSE]]
       /\ lastDone' = c
       /\ UNCHANGED <<cfg, command, search, gate, inbound, now, ticks, providers, activeProvider, lastCacheOp, lastOp,
                      lastSwitch>>

\* the awaited provider resolves with a response built from the upstream text
CompleteOk(c, upstream) == SettleOk(c, upstream, NoOutcome)

\* mutant: the alternate serves the retry only, the active provider stays
SettleFail_unswitched(c, error, outcome) ==
  LET rec == [calls[c] EXCEPT !.failedOn = calls[c].prov,
                              !.failedActive = (calls[c].prov = activeProvider),
                              !.error = error, !.outcome = outcome]
      fallbackProvider == getFallbackProvider(providers, activeProvider)
  IN /\ calls[c].pc = "await"
     /\ IF fallbackProvider # NoProvider
        THEN Enter(c, rec, fallbackProvider)
        ELSE /\ calls' = [calls EXCEPT ![c] = [rec EXCEPT !.pc = "rejected"]]
             /\ lastDone' = 0
             /\ UNCHANGED <<contexts, cache, useClock>>
     /\ UNCHANGED <<cfg, command, search, gate, inbound, now, ticks, channelContexts, appended, providers,
                    activeProvider, lastCacheOp, lastOp, lastSwitch>>

\* mutant: the user message is recorded before the error is rethrown
SettleFail_recorded(c, error, outcome) ==
  LET rec == [calls[c] EXCEPT !.failedOn = calls[c].prov,
                              !.failedActive = (calls[c].prov = activeProvider),
                              !.error = error, !.outcome = outcome]
      fallbackProvider == getFallbackProvider(providers, activeProvider)
      key == getContextKey(calls[c].channel, calls[c].userId)
      userMessage == [role |-> "user", content |-> calls[c].message, timestamp |-> now,
                      userId |-> calls[c].userId]
  IN /\ calls[c].pc = "await"
     /\ IF fallbackProvider # NoProvider
        THEN /\ activeProvider' = fallbackProvider
             /\ Enter(c, rec, fallbackProvider)
        ELSE /\ calls' = [calls EXCEPT ![c] = [rec EXCEPT !.pc = "rejected"]]
             /\ lastDone' = 0
             /\ contexts' = [contexts EXCEPT ![key].messages = Append(@, userMessage)]
             /\ UNCHANGED <<activeProvider, cache, useClock>>
     /\ UNCHANGED <<cfg, command, search, gate, inbound, now, ticks, channelContexts, appended, providers, lastCacheOp,
                    lastOp, lastSwitch>>

\* the awaited provider rejects with error: fail over and re-enter, or rethrow
SettleFail(c, error, outcome) ==
  LET rec == [calls[c] EXCEPT !.failedOn = calls[c].prov,
                              !.failedActive = (calls[c].prov = activeProvider),
                              !.error = error, !.outcome = outcome]
      fallbackProvider == getFallbackProvider(providers, activeProvider)
  IN /\ calls[c].pc = "await"
     /\ IF fallbackProvider # NoProvider
        THEN /\ activeProvider' = fallbackProvider
             /\ Enter(c, rec, fallbackProvider)
        ELSE /\ calls' = [calls EXCEPT ![c] = [rec EXCEPT !.pc = "rejected"]]
             /\ lastDone' = 0
             /\ UNCHANGED <<activeProvider, contexts, cache, useClock>>
     /\ UNCHANGED <<cfg, command, search, gate, inbound, now, ticks, channelContexts, appended, providers, lastCacheOp,
                    lastOp, lastSwitch>>

\* the awaited provider rejects, with an error that is not looked at
CompleteFail(c) == SettleFail(c, NoError, NoOutcome)

\* mutant: an unregistered name activates the first registered provider
SetActiveProvider_first(providerType) ==
  LET registered == providerType \in Range(providers) IN
  /\ activeProvider' = IF registered THEN providerType
                       ELSE IF Len(providers) > 0 THEN providers[1] ELSE activeProvider
  /\ lastSwitch' = [op |-> "setActiveProvider", requested |-> providerType,
                    threw |-> ~registered, activeBefore |-> activeProvider]
  /\ UNCHANGED <<cfg, command, search, gate, inbound, now, ticks, ctxVars, cacheVars, providers, calls,
                 lastDone>>

\* mutant: the switch is made whether or not the provider is registered
SetActiveProvider_unchecked(providerType) ==
  /\ activeProvider' = providerType
  /\ lastSwitch' = [op |-> "setActiveProvider", requested |-> providerType,
                    threw |-> FALSE, activeBefore |-> activeProvider]
  /\ UNCHANGED <<cfg, command, search, gate, inbound, now, ticks, ctxVars, cacheVars, providers, calls, lastDone>>

\* setActiveProvider(providerType): throws when the provider is not registered
SetActiveProvider(providerType) ==
  LET registered == providerType \in Range(providers) IN
  /\ activeProvider' = IF registered THEN providerType ELSE activeProvider
  /\ lastSwitch' = [op |-> "setActiveProvider", requested |-> providerType,
                    threw |-> ~registered, activeBefore |-> activeProvider]
  /\ UNCHANGED <<cfg, command, search, gate, inbound, now, ticks, ctxVars, cacheVars, providers, calls, lastDone>>

Next ==
  \/ \E c \in CallIds, m \in SvcMessages, ch \in Channels, u \in Users : Start(c, m, ch, u)
  \/ \E c \in CallIds, r \in SvcResponses : CompleteOk(c, r)
  \/ \E c \in CallIds : CompleteFail(c)

Spec == Init /\ [][Next]_vars

\* the AIService with an administrator switching providers around one call
SwitchCalls == {1}

NextSwitch ==
  \/ \E c \in SwitchCalls, m \in SvcMessages, ch \in Channels, u \in Users :
       Start(c, m, ch, u)
  \/ \E c \in SwitchCalls, r \in SvcUpstream : CompleteOk(c, r)
  \/ \E c \in SwitchCalls : CompleteFail(c)
  \/ \E p \in Range(ProviderOrder) : SetActiveProvider(p)

SpecSwitch == Init /\ [][NextSwitch]_vars

\* the AIService when every provider completion fails
NextAllFail ==
  \/ \E c \in CallIds, m \in SvcMessages, ch \in Channels, u \in Users : Start(c, m, ch, u)
  \/ \E c \in CallIds : CompleteFail(c)

\* every awaited completion settles: each provider call carries a timeout
FairAllFail ==
  /\ Init
  /\ [][NextAllFail]_vars
  /\ \A c \in CallIds : WF_vars(CompleteFail(c))

----------------------------------------------------------------------------
(* SpecChat: the AIService inside the application: concurrent calls, the     *)
(* message handler recording every channel message, reads of the channel-    *)
(* wide history, and the clock                                                *)

InitChat ==
  /\ Init
  /\ cfg.defaultProvider = "openai"
  /\ providers = ProviderOrder

RECURSIVE SumOver(_, _)
\* the sum of f over the set S
SumOver(f, S) ==
  IF S = {} THEN 0
  ELSE LET x == CHOOSE y \in S : TRUE IN f[x] + SumOver(f, S \ {x})

\* the message handler records a channel message before deciding to respond
DirectAddMessage(ch, u, text) ==
  LET message == [role |-> "user", content |-> text, timestamp |-> now, userId |-> u]
      after == addMessage(contexts, channelContexts, ch, u, message, FALSE, cfg)
  IN /\ SumOver(lastOp.appends, Users) < MaxDirect
     /\ contexts' = after.contexts
     /\ channelContexts' = after.channelContexts
     /\ appended' = [appended EXCEPT ![getContextKey(ch, u)] = Append(@, message)]
     /\ lastOp' = StoreOp("addMessage", getContextKey(ch, u), now, 0, <<>>, <<>>, <<>>,
                          [lastOp.appends EXCEPT ![u] = @ + 1])
     /\ lastDone' = 0
     /\ UNCHANGED <<cfg, command, search, gate, inbound, now, ticks, cacheVars, providers, activeProvider, calls,
                    lastSwitch>>

ChatGetChannelContext(ch) ==
  /\ lastOp' = StoreOp("getChannelContext", <<ch, "">>, now, 0, <<>>, <<>>,
                       getChannelContext(channelContexts, ch, now), lastOp.appends)
  /\ lastDone' = 0
  /\ UNCHANGED <<cfg, command, search, gate, inbound, now, ticks, contexts, channelContexts, appended, cacheVars,
                 providers, activeProvider, calls, lastSwitch>>

ChatTick(d) ==
  /\ Tick(d)
  /\ lastOp' = StoreOp("none", <<"", "">>, 0, 0, <<>>, <<>>, <<>>, lastOp.appends)
  /\ lastDone' = 0
  /\ UNCHANGED <<cfg, command, search, gate, inbound, contexts, channelContexts, appended, cacheVars, providers,
                 activeProvider, calls, lastSwitch>>

\* the steps of generateResponse leave the record of the last store operation
\* what is said in the channel
ChatMessages == {TextHi}

NextChat ==
  \/ \E c \in CallIds, m \in ChatMessages, ch \in Channels, u \in Users : Start(c, m, ch, u)
  \/ \E c \in CallIds, r \in SvcResponses : CompleteOk(c, r)
  \/ \E ch \in Channels, u \in Users, m \in ChatMessages : DirectAddMessage(ch, u, m)
  \/ \E ch \in Channels : ChatGetChannelContext(ch)
  \/ \E d \in {1, OneHour} : ChatTick(d)

SpecChat == InitChat /\ [][NextChat]_vars

\* every message appended to a conversation of channel ch, as a set
ChannelHistory(ch) ==
  UNION {{appended[k][i] : i \in 1..Len(appended[k])} : k \in {q \in Keys : q[1] = ch}}

\* what the last getChannelContext returned is exactly the messages of the
\* channel stamped within the hour before it, in non-decreasing timestamp order
ChannelViewOk ==
  LET returned == lastOp.returned
      ch == lastOp.key[1]
  IN /\ {returned[i] : i \in 1..Len(returned)}
          = {m \in ChannelHistory(ch) : m.timestamp >= lastOp.at - OneHour}
     /\ \A i \in 1..Len(returned), j \in 1..Len(returned) :
          i < j => returned[i].timestamp <= returned[j].timestamp

\* C18. Channel-wide view: getChannelContext(channelId) returns exactly the
\* messages of the channel, from all users, stamped within the last hour, in
\* non-decreasing timestamp order.
C18_ChannelView ==
  [][(lastOp' # lastOp /\ lastOp'.op = "getChannelContext") => ChannelViewOk']_vars

\* the messages of conversation k in the map ctxs
MessagesOf(ctxs, k) == IF k \in DOMAIN ctxs THEN ctxs[k].messages ELSE <<>>

\* C20. Per-conversation append atomicity: every step that changes a conversation
\* appends to its end either the one message the handler recorded or the user
\* message and the assistant response of the one call that resolved in the step,
\* adjacent and in that order; so exchanges never interleave and they appear in
\* the order in which the completions resolved.
C20_AppendAtomic ==
  [][\A k \in Keys :
       LET old == MessagesOf(contexts, k)
           new == MessagesOf(contexts', k)
           Resolves(c) ==
             /\ calls[c].pc = "await"
             /\ calls'[c].pc = "resolved"
             /\ getContextKey(calls[c].channel, calls[c].userId) = k
           IsExchange(c, pair) ==
             /\ pair[1].role = "user"
             /\ pair[1].content = calls[c].message
             /\ pair[2].role = "assistant"
             /\ pair[2].content = calls'[c].content
       IN /\ \A c \in CallIds : Resolves(c) =>
               /\ Len(new) = Len(old) + 2
               /\ SubSeq(new, 1, Len(old)) = old
               /\ IsExchange(c, SubSeq(new, Len(old) + 1, Len(old) + 2))
          /\ (\A c \in CallIds : ~Resolves(c)) =>
               \/ new = old
               \/ /\ lastOp'.op = "addMessage"
                  /\ lastOp'.key = k
                  /\ Len(new) = Len(old) + 1
                  /\ SubSeq(new, 1, Len(old)) = old
                  /\ new[Len(new)].role = "user"]_vars

\* two concurrent calls on one conversation resolved, the later one first, with
\* a message recorded by the handler between their exchanges
C20_Witness ==
  LET k == getContextKey(calls[1].channel, calls[1].userId)
      messages == MessagesOf(contexts, k)
  IN /\ calls[1].pc = "resolved" /\ ~calls[1].cached
     /\ calls[2].pc = "resolved" /\ ~calls[2].cached
     /\ getContextKey(calls[2].channel, calls[2].userId) = k
     /\ calls[1].content # calls[2].content
     /\ Len(messages) = 5
     /\ messages[2].content = calls[2].content
     /\ messages[3].role = "user"
     /\ messages[5].content = calls[1].content

\* the service as its constructor left it
JustConstructed ==
  /\ \A c \in CallIds : calls[c].pc = "idle"
  /\ lastSwitch.op = "none"

\* C13. Active-provider invariant: with at least one registered provider the
\* active provider is one of the registered providers, in every state that
\* construction, setActiveProvider and failover reach.
C13_ActiveRegistered ==
  Len(providers) >= 1 => activeProvider \in Range(providers)

\* a failover and then a refused switch have both left a registered provider active
C13_Witness ==
  /\ \E c \in CallIds : calls[c].failedOn # NoProvider /\ calls[c].failedActive
  /\ lastSwitch.op = "setActiveProvider"
  /\ lastSwitch.threw
  /\ activeProvider # cfg.defaultProvider
  /\ activeProvider \in Range(providers)

\* C14. Startup fallback: when the configured defaultProvider is not registered
\* and some provider is, construction leaves the first registered provider
\* active.
C14_StartupFallback ==
  (/\ JustConstructed
   /\ cfg.defaultProvider \notin Range(providers)
   /\ Len(providers) >= 1)
    => activeProvider = providers[1]

\* the default is gemini, openai and anthropic are registered, openai is active
C14_Witness ==
  /\ JustConstructed
  /\ cfg.defaultProvider \notin Range(providers)
  /\ Len(providers) >= 2
  /\ activeProvider = providers[1]

\* C15. No fabricated or empty success: a call that resolves from a provider
\* returns non-empty text, and it is the text the upstream completion produced.
C15_NoFabricatedSuccess ==
  \A c \in CallIds :
    (calls[c].pc = "resolved" /\ ~calls[c].cached)
      => /\ calls[c].content # <<>>
         /\ calls[c].content = calls[c].upstream

\* call c has just resolved with a response of a provider
JustCompleted(c) ==
  /\ lastDone = c
  /\ calls[c].pc = "resolved"
  /\ ~calls[c].cached

\* C16. Success path ordering: when a call has just resolved from a provider, its
\* conversation ends with its user message followed by the assistant response,
\* and the response was written to the cache, unless the prompt is skip-eligible,
\* for the conversation as it was before the two appends.
C16_SuccessOrder ==
  \A c \in CallIds :
    JustCompleted(c) =>
      LET messages == contexts[getContextKey(calls[c].channel, calls[c].userId)].messages
          n == Len(messages)
      IN /\ n >= 2
         /\ messages[n - 1].role = "user"
         /\ messages[n - 1].content = calls[c].message
         /\ messages[n - 1].userId = calls[c].userId
         /\ messages[n].role = "assistant"
         /\ messages[n].content = calls[c].content
         /\ IF shouldSkipCache(calls[c].message, cfg.customSkip)
            THEN \A i \in 1..Len(cache) : cache[i].key.prompt # calls[c].message
            ELSE /\ cache # <<>>
                 /\ cache[Len(cache)].key.prompt = calls[c].message
                 /\ cache[Len(cache)].value.content = calls[c].content
                 /\ cache[Len(cache)].srcMessages = SubSeq(messages, 1, n - 2)

\* a second exchange has just been appended after the first, and cached
C16_Witness ==
  \E c \in CallIds :
    /\ JustCompleted(c)
    /\ ~shouldSkipCache(calls[c].message, cfg.customSkip)
    /\ Len(contexts[getContextKey(calls[c].channel, calls[c].userId)].messages) = 4
    /\ Len(cache) = 2

\* C2. Failover: when the completion of the active provider fails and the retry
\* succeeds, the call resolves with a response of another registered provider;
\* with two or more registered providers no call is rejected.
C2_Failover ==
  \A c \in CallIds :
    /\ (/\ calls[c].pc = "resolved"
        /\ ~calls[c].cached
        /\ calls[c].failedOn # NoProvider
        /\ calls[c].failedActive)
         => /\ calls[c].provider # calls[c].failedOn
            /\ calls[c].provider \in Range(providers)
    /\ (calls[c].pc = "rejected") => Len(providers) < 2

\* a call resolved on the alternate after the active provider failed it
C2_Witness ==
  \E c \in CallIds :
    /\ Len(providers) = 2
    /\ calls[c].pc = "resolved"
    /\ ~calls[c].cached
    /\ calls[c].attempts = 2
    /\ calls[c].failedActive
    /\ calls[c].provider # calls[c].failedOn

\* C3. Bounded failover: a generateResponse call makes at most two provider
\* completion attempts.
C3_AtMostTwoAttempts ==
  \A c \in CallIds : calls[c].attempts <= 2

\* C4. Terminal error: when every completion fails, a call that awaits a
\* provider is eventually rejected.
C4_EventuallyRejected ==
  \A c \in CallIds : (calls[c].pc = "await") ~> (calls[c].pc = "rejected")

\* C5. Failover target: a call that failed over awaits a provider other than the
\* one whose completion just failed for it.
C5_FailoverTargetDiffers ==
  \A c \in CallIds :
    (calls[c].pc = "await" /\ calls[c].failedOn # NoProvider)
      => calls[c].prov # calls[c].failedOn

\* C6. Idempotent cache hit: a call that immediately follows a resolved call with
\* the same cacheable message for the same conversation is answered from the
\* cache with the same content, without a provider completion.
C6_SecondCallCached ==
  \A c \in CallIds :
    LET first == calls[c].after IN
    (/\ calls[c].pc # "idle"
     /\ first # 0
     /\ calls[first].message = calls[c].message
     /\ calls[first].channel = calls[c].channel
     /\ calls[first].userId = calls[c].userId
     /\ ~shouldSkipCache(calls[c].message, cfg.customSkip))
      => /\ calls[c].pc = "resolved"
         /\ calls[c].cached
         /\ calls[c].content = calls[first].content
         /\ calls[c].attempts = 0

----------------------------------------------------------------------------
(* Templated prompts *)

TextBoss == <<"B", "o", "s", "s">>
TextChannel == <<"c", "h", "a", "n", "n", "e", "l">>
TextOwner == <<"o", "w", "n", "e", "r">>

\* the template ids a caller passes: the two the handlers use and one that no
\* template has
TemplateIds == {"default", "direct_message", "unknown"}

\* the templateVars a caller passes; an absent variable and an empty one are
\* both <<>>, as renderTemplate and validateVariables read them with
\* variables[v] || '' and !variables[v]
TemplateVarChoices ==
  [userName : {<<>>, TextBoss}, channelType : {<<>>, TextChannel},
   context : {<<>>, TextOwner}]

TemplateCalls == {1}

NextTemplate ==
  \/ \E c \in TemplateCalls, m \in SvcMessages, ch \in Channels, u \in Users,
        t \in TemplateIds, tv \in TemplateVarChoices :
       StartTemplate(c, m, ch, u, t, tv)
  \/ \E c \in TemplateCalls, r \in SvcResponses : CompleteOk(c, r)
  \/ \E c \in TemplateCalls : CompleteFail(c)

SpecTemplate == InitChat /\ [][NextTemplate]_vars

\* C21. A templated call whose template lists a variable that is absent or
\* empty is reported as invalid: it never goes on to a provider, or resolves,
\* with a prompt in which the placeholder was replaced by the empty string.
C21_MissingVariableReported ==
  \A c \in CallIds :
    (calls[c].templateId # NoTemplate /\ calls[c].pc \in {"await", "resolved"})
      => validateVariables(calls[c].templateId, RenderVars(calls[c])).valid

----------------------------------------------------------------------------
(* Provider adapters *)

\* String.prototype.includes
Includes(text, pat) ==
  \E i \in 1..(Len(text) - Len(pat) + 1) :
    \A j \in 1..Len(pat) : text[i + j - 1] = pat[j]

Text429 == <<"4", "2", "9">>
TextSafety == <<"S", "A", "F", "E", "T", "Y">>
TextToolChoice == <<"t", "o", "o", "l", "_", "c", "h", "o", "i", "c", "e">>
TextBoom == <<"b", "o", "o", "m">>

\* the categories of error the adapters are to construct
Taxonomy ==
  {"rate-limited", "unauthorized", "upstream-unavailable", "malformed-response",
   "safety-filtered", "unknown"}

\* an Error constructed by an adapter, named by the message it is given
Constructed(category) == [category |-> category, raw |-> FALSE]

\* the vendor's error object, thrown on unchanged
Rethrown == [category |-> "vendor", raw |-> TRUE]

\* what generateResponse of an adapter settles with
Returned(text) == [threw |-> FALSE, text |-> text, error |-> NoError]
Thrown(error) == [threw |-> TRUE, text |-> <<>>, error |-> error]

\* the TypeError of reading [0] of an undefined array: it has no status
TypeError ==
  [kind |-> "error", shape |-> "", text |-> <<>>, status |-> 0, message |-> TextBoom,
   revision |-> ""]

\* the catch block of OpenAIProvider.generateResponse (openai.ts)
OpenAICatch(error) ==
  IF error.status = 429 THEN Constructed("rate-limited")
  ELSE IF error.status = 401 THEN Constructed("unauthorized")
  ELSE IF error.status = 503 THEN Constructed("upstream-unavailable")
  ELSE IF error.status = 400 /\ Includes(error.message, TextToolChoice)
       THEN Constructed("tool-choice-unsupported")
  ELSE Constructed("unknown")

\* the catch block of the later revision of OpenAIProvider.generateResponse
OpenAILatestCatch(error) ==
  IF error.status = 429 THEN Constructed("rate-limited")
  ELSE IF error.status = 401 THEN Constructed("unauthorized")
  ELSE IF error.status = 503 THEN Constructed("upstream-unavailable")
  ELSE Constructed("unknown")

\* OpenAIProvider.generateResponse (openai.ts) from the upstream outcome on:
\* completion.choices[0]?.message throws a TypeError inside the try block when
\* there is no choices array, and is undefined when the array is empty
OpenAIGenerate(outcome) ==
  IF outcome.kind = "error" THEN Thrown(OpenAICatch(outcome))
  ELSE IF outcome.shape \in {"noChoices", "errorObject"} THEN Thrown(OpenAICatch(TypeError))
  ELSE IF outcome.shape = "emptyChoices" THEN Returned(<<>>)
  ELSE Returned(outcome.text)

\* the later revision: an error-shaped object and a missing or empty choices
\* array throw an Error inside the try block, which the catch block wraps
OpenAILatestGenerate(outcome) ==
  IF outcome.kind = "error" THEN Thrown(OpenAILatestCatch(outcome))
  ELSE IF outcome.shape \in {"noChoices", "errorObject", "emptyChoices"}
       THEN Thrown(OpenAILatestCatch(TypeError))
  ELSE Returned(outcome.text)

\* AnthropicProvider.generateResponse: response.content[0]?.type throws a
\* TypeError when there is no content array; an empty one gives the content ''
AnthropicGenerate(outcome) ==
  IF outcome.kind = "error"
  THEN Thrown(IF outcome.status = 429 THEN Constructed("rate-limited")
              ELSE IF outcome.status = 401 THEN Constructed("unauthorized")
              ELSE IF outcome.status = 503 THEN Constructed("upstream-unavailable")
              ELSE Constructed("unknown"))
  ELSE IF outcome.shape \in {"noChoices", "errorObject"} THEN Thrown(Constructed("unknown"))
  ELSE IF outcome.shape = "emptyChoices" THEN Returned(<<>>)
  ELSE Returned(outcome.text)

\* GeminiProvider.generateResponse: the text is response.text() of the SDK,
\* which gives a text or throws a vendor error
GeminiGenerate(outcome) ==
  IF outcome.kind = "error"
  THEN Thrown(IF Includes(outcome.message, Text429) THEN Constructed("rate-limited")
              ELSE IF Includes(outcome.message, TextSafety)
                   THEN Constructed("safety-filtered")
              ELSE Rethrown)
  ELSE Returned(outcome.text)

\* generateResponse of the provider named prov
Generate(prov, outcome) ==
  CASE prov = "openai" ->
         IF outcome.revision = "latest" THEN OpenAILatestGenerate(outcome)
         ELSE OpenAIGenerate(outcome)
    [] prov = "anthropic" -> AnthropicGenerate(outcome)
    [] OTHER -> GeminiGenerate(outcome)

\* the statuses a vendor error carries (0: none) and its messages
VendorStatuses == {0, 400, 401, 429, 503}
VendorMessages == {<<>>, TextBoom, Text429, TextSafety, TextToolChoice}

\* the outcomes of an upstream API call of the provider named prov
Outcomes(prov) ==
  LET Revisions == IF prov = "openai" THEN {"file", "latest"} ELSE {""}
      Shapes == IF prov = "gemini" THEN {} ELSE {"noChoices", "emptyChoices", "errorObject"}
  IN [kind : {"error"}, shape : {""}, text : {<<>>}, status : VendorStatuses,
      message : VendorMessages, revision : Revisions]
     \cup [kind : {"completion"}, shape : {"ok"}, text : SvcUpstream, status : {0},
           message : {<<>>}, revision : Revisions]
     \cup [kind : {"completion"}, shape : Shapes, text : {<<>>}, status : {0},
           message : {<<>>}, revision : Revisions]

\* the awaited provider settles: its adapter turns the outcome of the upstream
\* API call into a response or a thrown error
ProviderSettles(c, outcome) ==
  LET settled == Generate(calls[c].prov, outcome)
  IN /\ calls[c].pc = "await"
     /\ outcome \in Outcomes(calls[c].prov)
     /\ IF settled.threw
        THEN SettleFail(c, settled.error, outcome)
        ELSE SettleOk(c, settled.text, outcome)

AdapterCalls == {1}
AdapterMessages == {TextHi}

AllOutcomes == UNION {Outcomes(p) : p \in Range(ProviderOrder)}

NextAdapter ==
  \/ \E c \in AdapterCalls, m \in AdapterMessages, ch \in Channels, u \in Users :
       Start(c, m, ch, u)
  \/ \E c \in AdapterCalls, o \in AllOutcomes : ProviderSettles(c, o)

SpecAdapter == Init /\ [][NextAdapter]_vars

\* C22. Every error a provider's generateResponse throws to the orchestrator
\* was constructed by the adapter and is of the fixed taxonomy; the vendor's
\* error object is never thrown on unchanged.
C22_ErrorsTranslated ==
  \A c \in CallIds :
    calls[c].error # NoError =>
      (~calls[c].error.raw /\ calls[c].error.category \in Taxonomy)

\* the shapes of a completion object that lacks the expected fields
MalformedShapes == {"noChoices", "emptyChoices", "errorObject"}

\* the provider whose generateResponse settled last in the call
SettledBy(rec) == IF rec.pc = "resolved" THEN rec.provider ELSE rec.failedOn

\* C23. When the upstream completion object lacks the expected fields, the
\* OpenAI adapter's generateResponse rejects with a malformed-response error,
\* not one of the unknown category, and does not resolve.
C23_MalformedRejected ==
  \A c \in CallIds :
    (calls[c].outcome.shape \in MalformedShapes /\ SettledBy(calls[c]) = "openai")
      => calls[c].error.category = "malformed-response"

----------------------------------------------------------------------------
(* The search and grounding gates *)

\* the characters \w matches, lower-cased
WordChars ==
  {"a", "b", "c", "d", "e", "f", "g", "h", "i", "j", "k", "l", "m", "n", "o", "p", "q",
   "r", "s", "t", "u", "v", "w", "x", "y", "z", "0", "1", "2", "3", "4", "5", "6", "7",
   "8", "9", "_"}

WordChar(ch) == Lower(ch) \in WordChars

\* the literal w, case-insensitively, at position i of text
MatchAt(text, w, i) ==
  /\ i >= 1
  /\ i + Len(w) - 1 <= Len(text)
  /\ \A j \in 1..Len(w) : Lower(text[i + j - 1]) = w[j]

\* \b between the characters i - 1 and i of text
Boundary(text, i) ==
  LET before == i > 1 /\ i - 1 <= Len(text) /\ WordChar(text[i - 1])
      after == i >= 1 /\ i <= Len(text) /\ WordChar(text[i])
  IN before # after

\* the elements of a regular expression: an alternation of literals with or
\* without \b on either side, and \w+; gap tells what precedes the element:
\* "any" for .* (or an unanchored start), "space" for \s+, "here" for ^
Both(gap, alts) == [word |-> FALSE, alts |-> alts, lb |-> TRUE, rb |-> TRUE, gap |-> gap]
Left(gap, alts) == [word |-> FALSE, alts |-> alts, lb |-> TRUE, rb |-> FALSE, gap |-> gap]
Bare(gap, alts) == [word |-> FALSE, alts |-> alts, lb |-> FALSE, rb |-> FALSE, gap |-> gap]
WordRun(gap) == [word |-> TRUE, alts |-> {}, lb |-> FALSE, rb |-> FALSE, gap |-> gap]

\* the positions at which an element may start when the previous one ended
\* just before pos
StartsAfter(text, gap, pos) ==
  CASE gap = "here" -> {pos}
    [] gap = "space" ->
         {k \in (pos + 1)..(Len(text) + 1) : \A i \in pos..(k - 1) : text[i] = " "}
    [] OTHER -> pos..(Len(text) + 1)

\* the positions just after a match of the element e that starts at k
EndsOf(text, e, k) ==
  IF e.word
  THEN {m \in (k + 1)..(Len(text) + 1) : \A i \in k..(m - 1) : WordChar(text[i])}
  ELSE {k + Len(a) : a \in {b \in e.alts :
                              /\ MatchAt(text, b, k)
                              /\ e.lb => Boundary(text, k)
                              /\ e.rb => Boundary(text, k + Len(b))}}

RECURSIVE MatchFrom(_, _, _, _)
\* the elements n.. of the pattern match text from position pos on
MatchFrom(text, pattern, n, pos) ==
  IF n > Len(pattern) THEN TRUE
  ELSE \E k \in StartsAfter(text, pattern[n].gap, pos) :
         \E m \in EndsOf(text, pattern[n], k) : MatchFrom(text, pattern, n + 1, m)

\* RegExp.prototype.test
Test(text, pattern) == MatchFrom(text, pattern, 1, 1)

\* Array.prototype.some over a list of patterns
SomeTest(text, patterns) == \E n \in 1..Len(patterns) : Test(text, patterns[n])

\* WebSearchService.searchTriggers
searchTriggers ==
  <<
     \* /what.*(happening|going on|news|latest)/i
     <<Bare("any", {<<"w", "h", "a", "t">>}),
       Bare("any", {<<"h", "a", "p", "p", "e", "n", "i", "n", "g">>,
                    <<"g", "o", "i", "n", "g", " ", "o", "n">>, <<"n", "e", "w", "s">>,
                    <<"l", "a", "t", "e", "s", "t">>})>>,
     \* /\b(current|today|yesterday|now|latest|recent|this week|last night)\b/i
     <<Both("any", {<<"c", "u", "r", "r", "e", "n", "t">>, <<"t", "o", "d", "a", "y">>,
                    <<"y", "e", "s", "t", "e", "r", "d", "a", "y">>, <<"n", "o", "w">>,
                    <<"l", "a", "t", "e", "s", "t">>, <<"r", "e", "c", "e", "n", "t">>,
                    <<"t", "h", "i", "s", " ", "w", "e", "e", "k">>,
                    <<"l", "a", "s", "t", " ", "n", "i", "g", "h", "t">>})>>,
     \* /\b(news about|update on|announcement|breaking)\b/i
     <<Both("any", {<<"n", "e", "w", "s", " ", "a", "b", "o", "u", "t">>,
                    <<"u", "p", "d", "a", "t", "e", " ", "o", "n">>,
                    <<"a", "n", "n", "o", "u", "n", "c", "e", "m", "e", "n", "t">>,
                    <<"b", "r", "e", "a", "k", "i", "n", "g">>})>>,
     \* /\b(who won|who is winning|score|game|match|championship|finals|playoff)\b/i
     <<Both("any", {<<"w", "h", "o", " ", "w", "o", "n">>,
                    <<"w", "h", "o", " ", "i", "s", " ", "w", "i", "n", "n", "i", "n", "g">>,
                    <<"s", "c", "o", "r", "e">>, <<"g", "a", "m", "e">>,
                    <<"m", "a", "t", "c", "h">>,
                    <<"c", "h", "a", "m", "p", "i", "o", "n", "s", "h", "i", "p">>,
                    <<"f", "i", "n", "a", "l", "s">>,
                    <<"p", "l", "a", "y", "o", "f", "f">>})>>,
     \* /\b(nba|nfl|...|hockey)\b.*\b(game|score|match|result|winner)\b/i
     <<Both("any", {<<"n", "b", "a">>, <<"n", "f", "l">>, <<"m", "l", "b">>,
                    <<"n", "h", "l">>, <<"s", "o", "c", "c", "e", "r">>,
                    <<"f", "o", "o", "t", "b", "a", "l", "l">>,
                    <<"b", "a", "s", "k", "e", "t", "b", "a", "l", "l">>,
                    <<"b", "a", "s", "e", "b", "a", "l", "l">>,
                    <<"h", "o", "c", "k", "e", "y">>}),
       Both("any", {<<"g", "a", "m", "e">>, <<"s", "c", "o", "r", "e">>,
                    <<"m", "a", "t", "c", "h">>, <<"r", "e", "s", "u", "l", "t">>,
                    <<"w", "i", "n", "n", "e", "r">>})>>,
     \* /\b(game|match|championship|tournament|finals).*\b(tonight|today|yesterday|last night)\b/i
     <<Left("any", {<<"g", "a", "m", "e">>, <<"m", "a", "t", "c", "h">>,
                    <<"c", "h", "a", "m", "p", "i", "o", "n", "s", "h", "i", "p">>,
                    <<"t", "o", "u", "r", "n", "a", "m", "e", "n", "t">>,
                    <<"f", "i", "n", "a", "l", "s">>}),
       Both("any", {<<"t", "o", "n", "i", "g", "h", "t">>, <<"t", "o", "d", "a", "y">>,
                    <<"y", "e", "s", "t", "e", "r", "d", "a", "y">>,
                    <<"l", "a", "s", "t", " ", "n", "i", "g", "h", "t">>})>>,
     \* /\b(weather|temperature|forecast|rain|snow|storm)\b/i
     <<Both("any", {<<"w", "e", "a", "t", "h", "e", "r">>,
                    <<"t", "e", "m", "p", "e", "r", "a", "t", "u", "r", "e">>,
                    <<"f", "o", "r", "e", "c", "a", "s", "t">>, <<"r", "a", "i", "n">>,
                    <<"s", "n", "o", "w">>, <<"s", "t", "o", "r", "m">>})>>,
     \* /\b(stock|price|market|crypto|bitcoin|dow|nasdaq|s&p)\b/i
     <<Both("any", {<<"s", "t", "o", "c", "k">>, <<"p", "r", "i", "c", "e">>,
                    <<"m", "a", "r", "k", "e", "t">>, <<"c", "r", "y", "p", "t", "o">>,
                    <<"b", "i", "t", "c", "o", "i", "n">>, <<"d", "o", "w">>,
                    <<"n", "a", "s", "d", "a", "q">>, <<"s", "&", "p">>})>>,
     \* /\b(when is|when does|when will|what time)\b/i
     <<Both("any", {<<"w", "h", "e", "n", " ", "i", "s">>,
                    <<"w", "h", "e", "n", " ", "d", "o", "e", "s">>,
                    <<"w", "h", "e", "n", " ", "w", "i", "l", "l">>,
                    <<"w", "h", "a", "t", " ", "t", "i", "m", "e">>})>>,
     \* /\b(how much is|what is the price|cost of)\b/i
     <<Both("any", {<<"h", "o", "w", " ", "m", "u", "c", "h", " ", "i", "s">>,
                    <<"w", "h", "a", "t", " ", "i", "s", " ", "t", "h", "e", " ", "p", "r", "i", "c", "e">>,
                    <<"c", "o", "s", "t", " ", "o", "f">>})>>,
     \* /\b(president|prime minister|leader|government)\b.*\b(current|now|today)\b/i
     <<Both("any", {<<"p", "r", "e", "s", "i", "d", "e", "n", "t">>,
                    <<"p", "r", "i", "m", "e", " ", "m", "i", "n", "i", "s", "t", "e", "r">>,
                    <<"l", "e", "a", "d", "e", "r">>,
                    <<"g", "o", "v", "e", "r", "n", "m", "e", "n", "t">>}),
       Both("any", {<<"c", "u", "r", "r", "e", "n", "t">>, <<"n", "o", "w">>,
                    <<"t", "o", "d", "a", "y">>})>>,
     \* /\b(population|statistics|data|numbers).*\b(current|latest|2024|2025)\b/i
     <<Left("any", {<<"p", "o", "p", "u", "l", "a", "t", "i", "o", "n">>,
                    <<"s", "t", "a", "t", "i", "s", "t", "i", "c", "s">>,
                    <<"d", "a", "t", "a">>, <<"n", "u", "m", "b", "e", "r", "s">>}),
       Both("any", {<<"c", "u", "r", "r", "e", "n", "t">>,
                    <<"l", "a", "t", "e", "s", "t">>, <<"2", "0", "2", "4">>,
                    <<"2", "0", "2", "5">>})>>,
     \* /\b(202[4-9]|203\d)\b/
     <<Both("any", {<<"2", "0", "2", "4">>, <<"2", "0", "2", "5">>,
                    <<"2", "0", "2", "6">>, <<"2", "0", "2", "7">>,
                    <<"2", "0", "2", "8">>, <<"2", "0", "2", "9">>,
                    <<"2", "0", "3", "0">>, <<"2", "0", "3", "1">>,
                    <<"2", "0", "3", "2">>, <<"2", "0", "3", "3">>,
                    <<"2", "0", "3", "4">>, <<"2", "0", "3", "5">>,
                    <<"2", "0", "3", "6">>, <<"2", "0", "3", "7">>,
                    <<"2", "0", "3", "8">>, <<"2", "0", "3", "9">>})>>,
     \* /^(what|who|where|when|how|why).*\b(today|now|current|latest)\b/i
     <<Bare("here", {<<"w", "h", "a", "t">>, <<"w", "h", "o">>,
                     <<"w", "h", "e", "r", "e">>, <<"w", "h", "e", "n">>,
                     <<"h", "o", "w">>, <<"w", "h", "y">>}),
       Both("any", {<<"t", "o", "d", "a", "y">>, <<"n", "o", "w">>,
                    <<"c", "u", "r", "r", "e", "n", "t">>,
                    <<"l", "a", "t", "e", "s", "t">>})>>
  >>

\* WebSearchService.shouldSearch(message)
shouldSearch(message) == SomeTest(message, searchTriggers)

\* the patterns of GeminiProvider.shouldUseGrounding
groundingPatterns ==
  <<
     \* /\b(current|today|latest|recent|now|happening)\b/i
     <<Both("any", {<<"c", "u", "r", "r", "e", "n", "t">>, <<"t", "o", "d", "a", "y">>,
                    <<"l", "a", "t", "e", "s", "t">>, <<"r", "e", "c", "e", "n", "t">>,
                    <<"n", "o", "w">>, <<"h", "a", "p", "p", "e", "n", "i", "n", "g">>})>>,
     \* /\b(news|update|announcement|breaking)\b/i
     <<Both("any", {<<"n", "e", "w", "s">>, <<"u", "p", "d", "a", "t", "e">>,
                    <<"a", "n", "n", "o", "u", "n", "c", "e", "m", "e", "n", "t">>,
                    <<"b", "r", "e", "a", "k", "i", "n", "g">>})>>,
     \* /\b(score|game|match|win|won|lost|championship|finals)\b/i
     <<Both("any", {<<"s", "c", "o", "r", "e">>, <<"g", "a", "m", "e">>,
                    <<"m", "a", "t", "c", "h">>, <<"w", "i", "n">>, <<"w", "o", "n">>,
                    <<"l", "o", "s", "t">>,
                    <<"c", "h", "a", "m", "p", "i", "o", "n", "s", "h", "i", "p">>,
                    <<"f", "i", "n", "a", "l", "s">>})>>,
     \* /\b(nba|nfl|mlb|nhl|sports)\b/i
     <<Both("any", {<<"n", "b", "a">>, <<"n", "f", "l">>, <<"m", "l", "b">>,
                    <<"n", "h", "l">>, <<"s", "p", "o", "r", "t", "s">>})>>,
     \* /\b(weather|temperature|forecast)\b/i
     <<Both("any", {<<"w", "e", "a", "t", "h", "e", "r">>,
                    <<"t", "e", "m", "p", "e", "r", "a", "t", "u", "r", "e">>,
                    <<"f", "o", "r", "e", "c", "a", "s", "t">>})>>,
     \* /\b(stock|price|market|crypto|bitcoin)\b/i
     <<Both("any", {<<"s", "t", "o", "c", "k">>, <<"p", "r", "i", "c", "e">>,
                    <<"m", "a", "r", "k", "e", "t">>, <<"c", "r", "y", "p", "t", "o">>,
                    <<"b", "i", "t", "c", "o", "i", "n">>})>>,
     \* /\b(who is|what is|when is|where is).*\b(president|leader|champion|winner)\b/i
     <<Left("any", {<<"w", "h", "o", " ", "i", "s">>,
                    <<"w", "h", "a", "t", " ", "i", "s">>,
                    <<"w", "h", "e", "n", " ", "i", "s">>,
                    <<"w", "h", "e", "r", "e", " ", "i", "s">>}),
       Both("any", {<<"p", "r", "e", "s", "i", "d", "e", "n", "t">>,
                    <<"l", "e", "a", "d", "e", "r">>,
                    <<"c", "h", "a", "m", "p", "i", "o", "n">>,
                    <<"w", "i", "n", "n", "e", "r">>})>>,
     \* /\b(when|what time|schedule)\b/i
     <<Both("any", {<<"w", "h", "e", "n">>,
                    <<"w", "h", "a", "t", " ", "t", "i", "m", "e">>,
                    <<"s", "c", "h", "e", "d", "u", "l", "e">>})>>,
     \* /\b(202[4-9]|203\d)\b/
     <<Both("any", {<<"2", "0", "2", "4">>, <<"2", "0", "2", "5">>,
                    <<"2", "0", "2", "6">>, <<"2", "0", "2", "7">>,
                    <<"2", "0", "2", "8">>, <<"2", "0", "2", "9">>,
                    <<"2", "0", "3", "0">>, <<"2", "0", "3", "1">>,
                    <<"2", "0", "3", "2">>, <<"2", "0", "3", "3">>,
                    <<"2", "0", "3", "4">>, <<"2", "0", "3", "5">>,
                    <<"2", "0", "3", "6">>, <<"2", "0", "3", "7">>,
                    <<"2", "0", "3", "8">>, <<"2", "0", "3", "9">>})>>
  >>

\* GeminiProvider.shouldUseGrounding(prompt)
shouldUseGrounding(prompt) == SomeTest(prompt, groundingPatterns)

\* the strong indicators of OpenAIProvider.shouldUseWebSearch
strongIndicators ==
  <<
     \* /\b(game|match|score|playing)\s+(today|tonight|yesterday|last night)/i
     <<Left("any", {<<"g", "a", "m", "e">>, <<"m", "a", "t", "c", "h">>,
                    <<"s", "c", "o", "r", "e">>, <<"p", "l", "a", "y", "i", "n", "g">>}),
       Bare("space", {<<"t", "o", "d", "a", "y">>,
                      <<"t", "o", "n", "i", "g", "h", "t">>,
                      <<"y", "e", "s", "t", "e", "r", "d", "a", "y">>,
                      <<"l", "a", "s", "t", " ", "n", "i", "g", "h", "t">>})>>,
     \* /\b(who won|who beat|final score|results?)\s+\w+/i
     <<Left("any", {<<"w", "h", "o", " ", "w", "o", "n">>,
                    <<"w", "h", "o", " ", "b", "e", "a", "t">>,
                    <<"f", "i", "n", "a", "l", " ", "s", "c", "o", "r", "e">>,
                    <<"r", "e", "s", "u", "l", "t">>,
                    <<"r", "e", "s", "u", "l", "t", "s">>}),
       WordRun("space")>>,
     \* /\b(nba|nfl|mlb|nhl|tennis|soccer)\s+\w+\s+(game|match|score)/i
     <<Left("any", {<<"n", "b", "a">>, <<"n", "f", "l">>, <<"m", "l", "b">>,
                    <<"n", "h", "l">>, <<"t", "e", "n", "n", "i", "s">>,
                    <<"s", "o", "c", "c", "e", "r">>}),
       WordRun("space"),
       Bare("space", {<<"g", "a", "m", "e">>, <<"m", "a", "t", "c", "h">>,
                      <<"s", "c", "o", "r", "e">>})>>,
     \* /\b(latest|current|recent|breaking)\s+(news|events?|updates?)/i
     <<Left("any", {<<"l", "a", "t", "e", "s", "t">>,
                    <<"c", "u", "r", "r", "e", "n", "t">>,
                    <<"r", "e", "c", "e", "n", "t">>,
                    <<"b", "r", "e", "a", "k", "i", "n", "g">>}),
       Bare("space", {<<"n", "e", "w", "s">>, <<"e", "v", "e", "n", "t">>,
                      <<"u", "p", "d", "a", "t", "e">>})>>,
     \* /\bwhat\s+(happened|is happening)\s+(today|yesterday|this week)/i
     <<Left("any", {<<"w", "h", "a", "t">>}),
       Bare("space", {<<"h", "a", "p", "p", "e", "n", "e", "d">>,
                      <<"i", "s", " ", "h", "a", "p", "p", "e", "n", "i", "n", "g">>}),
       Bare("space", {<<"t", "o", "d", "a", "y">>,
                      <<"y", "e", "s", "t", "e", "r", "d", "a", "y">>,
                      <<"t", "h", "i", "s", " ", "w", "e", "e", "k">>})>>,
     \* /\b(stock price|market|nasdaq|dow jones|bitcoin|crypto)\s+(today|now|current)/i
     <<Left("any", {<<"s", "t", "o", "c", "k", " ", "p", "r", "i", "c", "e">>,
                    <<"m", "a", "r", "k", "e", "t">>, <<"n", "a", "s", "d", "a", "q">>,
                    <<"d", "o", "w", " ", "j", "o", "n", "e", "s">>,
                    <<"b", "i", "t", "c", "o", "i", "n">>,
                    <<"c", "r", "y", "p", "t", "o">>}),
       Bare("space", {<<"t", "o", "d", "a", "y">>, <<"n", "o", "w">>,
                      <<"c", "u", "r", "r", "e", "n", "t">>})>>,
     \* /\b(weather|temperature|forecast)\s+(in|for|today|tomorrow)/i
     <<Left("any", {<<"w", "e", "a", "t", "h", "e", "r">>,
                    <<"t", "e", "m", "p", "e", "r", "a", "t", "u", "r", "e">>,
                    <<"f", "o", "r", "e", "c", "a", "s", "t">>}),
       Bare("space", {<<"i", "n">>, <<"f", "o", "r">>, <<"t", "o", "d", "a", "y">>,
                      <<"t", "o", "m", "o", "r", "r", "o", "w">>})>>,
     \* /\b(australian open|super bowl|world cup|olympics)\s+202\d/i
     <<Left("any", {<<"a", "u", "s", "t", "r", "a", "l", "i", "a", "n", " ", "o", "p", "e", "n">>,
                    <<"s", "u", "p", "e", "r", " ", "b", "o", "w", "l">>,
                    <<"w", "o", "r", "l", "d", " ", "c", "u", "p">>,
                    <<"o", "l", "y", "m", "p", "i", "c", "s">>}),
       Bare("space", {<<"2", "0", "2", "0">>, <<"2", "0", "2", "1">>,
                      <<"2", "0", "2", "2">>, <<"2", "0", "2", "3">>,
                      <<"2", "0", "2", "4">>, <<"2", "0", "2", "5">>,
                      <<"2", "0", "2", "6">>, <<"2", "0", "2", "7">>,
                      <<"2", "0", "2", "8">>, <<"2", "0", "2", "9">>})>>
  >>

\* /\b(today|tonight|yesterday|tomorrow|this week|last night|now|current|latest|recent)\b/i
timeContext ==
  <<Both("any", {<<"t", "o", "d", "a", "y">>, <<"t", "o", "n", "i", "g", "h", "t">>,
                    <<"y", "e", "s", "t", "e", "r", "d", "a", "y">>,
                    <<"t", "o", "m", "o", "r", "r", "o", "w">>,
                    <<"t", "h", "i", "s", " ", "w", "e", "e", "k">>,
                    <<"l", "a", "s", "t", " ", "n", "i", "g", "h", "t">>,
                    <<"n", "o", "w">>, <<"c", "u", "r", "r", "e", "n", "t">>,
                    <<"l", "a", "t", "e", "s", "t">>, <<"r", "e", "c", "e", "n", "t">>})>>

\* /\b(game|match|score|beat|defeat|win|loss|playing)\b/i
sportsContext ==
  <<Both("any", {<<"g", "a", "m", "e">>, <<"m", "a", "t", "c", "h">>,
                    <<"s", "c", "o", "r", "e">>, <<"b", "e", "a", "t">>,
                    <<"d", "e", "f", "e", "a", "t">>, <<"w", "i", "n">>,
                    <<"l", "o", "s", "s">>, <<"p", "l", "a", "y", "i", "n", "g">>})>>

\* /\b(news|happening|event|announcement)\b/i
newsContext ==
  <<Both("any", {<<"n", "e", "w", "s">>,
                    <<"h", "a", "p", "p", "e", "n", "i", "n", "g">>,
                    <<"e", "v", "e", "n", "t">>,
                    <<"a", "n", "n", "o", "u", "n", "c", "e", "m", "e", "n", "t">>})>>

\* OpenAIProvider.shouldUseWebSearch(prompt)
shouldUseWebSearch(prompt) ==
  \/ SomeTest(prompt, strongIndicators)
  \/ /\ Test(prompt, timeContext)
     /\ Test(prompt, sportsContext) \/ Test(prompt, newsContext)

FixtureFinals ==
  <<"w", "h", "o", " ", "w", "o", "n", " ", "t", "h", "e", " ", "N", "B", "A", " ", "f",
  "i", "n", "a", "l", "s", " ", "l", "a", "s", "t", " ", "n", "i", "g", "h", "t">>

FixtureCapital ==
  <<"w", "h", "a", "t", " ", "i", "s", " ", "t", "h", "e", " ", "c", "a", "p", "i", "t",
  "a", "l", " ", "o", "f", " ", "F", "r", "a", "n", "c", "e">>

FixtureWeather ==
  <<"w", "h", "a", "t", "'", "s", " ", "t", "h", "e", " ", "w", "e", "a", "t", "h", "e",
  "r", " ", "i", "n", " ", "A", "u", "s", "t", "i", "n", " ", "t", "o", "d", "a", "y">>

FixtureRecursion ==
  <<"e", "x", "p", "l", "a", "i", "n", " ", "r", "e", "c", "u", "r", "s", "i", "o",
  "n">>

Fixtures == {FixtureFinals, FixtureCapital, FixtureWeather, FixtureRecursion}

\* the words of the other prompts
GateWords ==
  {<<"t", "o", "d", "a", "y">>,
   <<"n", "b", "a">>,
   <<"w", "o", "n">>,
   <<"w", "e", "a", "t", "h", "e", "r">>,
   <<"e", "x", "p", "l", "a", "i", "n">>}

RECURSIVE JoinWords(_)
\* the words of a list, separated by single spaces
JoinWords(words) ==
  IF Len(words) = 0 THEN <<>>
  ELSE IF Len(words) = 1 THEN words[1]
  ELSE words[1] \o <<" ">> \o JoinWords(Tail(words))

\* the prompts the gates are evaluated on
GatePrompts ==
  Fixtures \cup {JoinWords(ws) : ws \in UNION {[1..n -> GateWords] : n \in 1..MaxGateWords}}

\* a prompt is given, and no gate evaluated on it yet
InitGate ==
  /\ cfg = Config(AppContextLimit, ServiceMaxTokens, AppTtl, AppMaxSize, TRUE)
  /\ now = 0
  /\ ticks = 0
  /\ CtxIdle
  /\ SvcIdle
  /\ CacheIdle
  /\ InboundIdle
  /\ command = NoCommand
  /\ search = NoSearch
  /\ \E prompt \in GatePrompts : gate = [NoGate EXCEPT !.prompt = prompt]

\* one of the three gates is evaluated on the prompt
Decide(fn) ==
  /\ gate' = [gate EXCEPT !.fn = fn,
                          !.decision =
                            CASE fn = "shouldSearch" -> shouldSearch(gate.prompt)
                              [] fn = "shouldUseGrounding" -> shouldUseGrounding(gate.prompt)
                              [] OTHER -> shouldUseWebSearch(gate.prompt)]
  /\ UNCHANGED <<cfg, command, search, inbound, now, ticks, ctxVars, svcVars, cacheVars>>

GateFns == {"shouldSearch", "shouldUseGrounding", "shouldUseWebSearch"}

NextGate == \E fn \in GateFns : Decide(fn)

SpecGate == InitGate /\ [][NextGate]_vars

\* the trigger categories: temporal marker, sports vocabulary with an outcome
\* word, weather, financial, recent year, question word plus time marker
TemporalMarker ==
  <<Both("any", {<<"t", "o", "d", "a", "y">>, <<"n", "o", "w">>,
                 <<"l", "a", "t", "e", "s", "t">>, <<"y", "e", "s", "t", "e", "r", "d", "a", "y">>,
                 <<"t", "h", "i", "s", " ", "w", "e", "e", "k">>,
                 <<"l", "a", "s", "t", " ", "n", "i", "g", "h", "t">>,
                 <<"t", "o", "n", "i", "g", "h", "t">>})>>
SportsWord ==
  <<Both("any", {<<"n", "b", "a">>, <<"n", "f", "l">>, <<"m", "l", "b">>, <<"n", "h", "l">>,
                 <<"g", "a", "m", "e">>, <<"m", "a", "t", "c", "h">>,
                 <<"f", "i", "n", "a", "l", "s">>})>>
OutcomeWord ==
  <<Both("any", {<<"w", "o", "n">>, <<"w", "i", "n">>, <<"l", "o", "s", "t">>,
                 <<"s", "c", "o", "r", "e">>, <<"r", "e", "s", "u", "l", "t">>,
                 <<"w", "i", "n", "n", "e", "r">>})>>
WeatherWord ==
  <<Both("any", {<<"w", "e", "a", "t", "h", "e", "r">>,
                 <<"t", "e", "m", "p", "e", "r", "a", "t", "u", "r", "e">>,
                 <<"f", "o", "r", "e", "c", "a", "s", "t">>})>>
FinancialWord ==
  <<Both("any", {<<"s", "t", "o", "c", "k">>, <<"p", "r", "i", "c", "e">>,
                 <<"m", "a", "r", "k", "e", "t">>, <<"c", "r", "y", "p", "t", "o">>,
                 <<"b", "i", "t", "c", "o", "i", "n">>})>>
RecentYear == <<groundingPatterns[9][1]>>

\* the prompt matches at least one trigger category (a question word plus a
\* time marker has a temporal marker)
MatchesTrigger(prompt) ==
  \/ Test(prompt, TemporalMarker)
  \/ Test(prompt, SportsWord) /\ Test(prompt, OutcomeWord)
  \/ Test(prompt, WeatherWord)
  \/ Test(prompt, FinancialWord)
  \/ Test(prompt, RecentYear)

\* C26. The decision of a gate on a prompt is true exactly when the prompt
\* matches at least one trigger category; in particular it is true for the
\* fixtures about the finals and the weather and false for the other two.
C26_GateDecides ==
  gate.fn # "none" => gate.decision = MatchesTrigger(gate.prompt)

\* the part of C26 about the four fixtures
C26_Fixtures ==
  (gate.fn # "none" /\ gate.prompt \in Fixtures)
    => gate.decision = (gate.prompt \in {FixtureFinals, FixtureWeather})

C26_FixturesWitness ==
  gate.fn = "shouldUseWebSearch" /\ gate.prompt = FixtureWeather /\ gate.decision

----------------------------------------------------------------------------
(* SpecApp: the event handlers of the application *)

MyUserId == "U1"               \* config.MY_USER_ID
BotUserId == "B"               \* this.botUserId

\* `<@${this.botUserId}>`
BotMention == <<"<", "@", BotUserId, ">">>

TextHuman == <<"H", "u", "m", "a", "n">>
TextDM == <<"D", "M">>
TextRegular == <<"r", "e", "g", "u", "l", "a", "r">>

\* the characters a mention holds between <@ and >: [A-Z0-9] in the message
\* handler, [^>] in the app_mention handler
MentionChar(ch, strict) ==
  IF strict THEN ch \in DOMAIN UpperToLower \/ ch \in {"0", "1", "2", "3", "4", "5", "6",
                                                       "7", "8", "9"}
  ELSE ch # ">"

\* the length of the mention text starts with, or 0
MentionLength(text, strict) ==
  IF Len(text) >= 4 /\ text[1] = "<" /\ text[2] = "@"
       /\ \E n \in 4..Len(text) :
            text[n] = ">" /\ \A i \in 3..(n - 1) : MentionChar(text[i], strict)
  THEN CHOOSE n \in 4..Len(text) :
         text[n] = ">" /\ \A i \in 3..(n - 1) : MentionChar(text[i], strict)
  ELSE 0

RECURSIVE RemoveMentions(_, _)
\* text.replace(/<@[A-Z0-9]+>/g, '') and text.replace(/<@[^>]+>/g, '')
RemoveMentions(text, strict) ==
  IF text = <<>> THEN <<>>
  ELSE LET n == MentionLength(text, strict)
       IN IF n > 0 THEN RemoveMentions(SubSeq(text, n + 1, Len(text)), strict)
          ELSE <<Head(text)>> \o RemoveMentions(Tail(text), strict)

RECURSIVE Trim(_)
\* String.prototype.trim
Trim(text) ==
  IF text = <<>> THEN <<>>
  ELSE IF Head(text) = " " THEN Trim(Tail(text))
  ELSE IF text[Len(text)] = " " THEN Trim(SubSeq(text, 1, Len(text) - 1))
  ELSE text

\* the options both handlers pass to generateResponse
HandlerVars(isOwner, isDirectMessage) ==
  [userName |-> IF isOwner THEN TextBoss ELSE TextHuman,
   channelType |-> IF isDirectMessage THEN TextDM ELSE TextChannel,
   context |-> IF isOwner THEN TextOwner ELSE TextRegular]

\* the inbound message e is known to the application with these attributes
Delivered(e, author, channel, text) ==
  inbound[e].sent =>
    (inbound[e].author = author /\ inbound[e].channel = channel /\ inbound[e].text = text)

\* the first idle call
IsNextCall(c) == calls[c].pc = "idle" /\ \A d \in CallIds : d < c => calls[d].pc # "idle"

\* the handler of message events, up to its first suspension, on the path
\* that does not search the web first: it records the message in the context
\* and, for a direct message or a mention of the bot, calls generateResponse
MessageEvent(e, author, channel, text) ==
  LET isDirectMessage == channel \in DirectChannels
      isOwner == author = MyUserId
      isBotMentioned == Includes(text, BotMention)
      message == [role |-> "user", content |-> text, timestamp |-> now, userId |-> author]
      after == IF text # <<>>
               THEN addMessage(contexts, channelContexts, channel, author, message,
                               isDirectMessage, cfg)
               ELSE [contexts |-> contexts, channelContexts |-> channelContexts]
      key == getContextKey(channel, author)
      cleanText == Trim(RemoveMentions(text, TRUE))
  IN /\ ~inbound[e].message
     /\ Delivered(e, author, channel, text)
     /\ inbound' = [inbound EXCEPT ![e] = [@ EXCEPT !.sent = TRUE, !.author = author,
                                                    !.channel = channel, !.text = text,
                                                    !.message = TRUE]]
     /\ IF author = BotUserId
        THEN UNCHANGED <<contexts, channelContexts, appended, calls, cache, useClock,
                         lastDone>>
        ELSE /\ channelContexts' = after.channelContexts
             /\ appended' = IF text # <<>> THEN [appended EXCEPT ![key] = Append(@, message)]
                            ELSE appended
             /\ IF (isDirectMessage \/ isBotMentioned) /\ text # <<>>
                THEN /\ activeProvider = "gemini" \/ ~shouldSearch(cleanText)
                     /\ \E c \in CallIds :
                          /\ IsNextCall(c)
                          /\ EnterFrom(c, [calls[c] EXCEPT
                                             !.message = cleanText, !.channel = channel,
                                             !.userId = author, !.after = lastDone,
                                             !.templateId = IF isDirectMessage
                                                            THEN "direct_message"
                                                            ELSE "default",
                                             !.templateVars =
                                               HandlerVars(isOwner, isDirectMessage),
                                             !.event = e, !.via = "message"],
                                       activeProvider, after.contexts,
                                       after.channelContexts)
                ELSE /\ contexts' = after.contexts
                     /\ lastDone' = 0
                     /\ UNCHANGED <<calls, cache, useClock>>
     /\ UNCHANGED <<cfg, command, search, gate, now, ticks, providers, activeProvider, lastCacheOp, lastOp,
                    lastSwitch>>

\* the handler of app_mention events, up to its first suspension, on the path
\* that does not search the web first; the platform sends the event for a
\* channel message that mentions the bot
AppMentionEvent(e, author, channel, text) ==
  LET isOwner == author = MyUserId
      cleanText == Trim(RemoveMentions(text, FALSE))
  IN /\ ~inbound[e].mention
     /\ Delivered(e, author, channel, text)
     /\ channel \in Channels
     /\ author # BotUserId
     /\ Includes(text, BotMention)
     /\ IF cleanText # <<>>
        THEN /\ activeProvider = "gemini" \/ ~shouldSearch(cleanText)
             /\ inbound' = [inbound EXCEPT ![e] = [@ EXCEPT !.sent = TRUE,
                                                            !.author = author,
                                                            !.channel = channel,
                                                            !.text = text,
                                                            !.mention = TRUE]]
             /\ \E c \in CallIds :
                  /\ IsNextCall(c)
                  /\ Enter(c, [calls[c] EXCEPT
                                 !.message = cleanText, !.channel = channel,
                                 !.userId = author, !.after = lastDone,
                                 !.templateId = "default",
                                 !.templateVars = HandlerVars(isOwner, FALSE),
                                 !.event = e, !.via = "app_mention"],
                           activeProvider)
        ELSE \* say(...) without a call
             /\ inbound' = [inbound EXCEPT ![e] = [@ EXCEPT !.sent = TRUE,
                                                            !.author = author,
                                                            !.channel = channel,
                                                            !.text = text,
                                                            !.mention = TRUE,
                                                            !.said = @ + 1]]
             /\ lastDone' = 0
             /\ UNCHANGED <<contexts, calls, cache, useClock>>
     /\ UNCHANGED <<cfg, command, search, gate, now, ticks, channelContexts, appended, providers,
                    activeProvider, lastCacheOp, lastOp, lastSwitch>>

\* the texts of the inbound messages: "hi", "<@B> hi" and "<@B>"
AppTexts == {TextHi, BotMention \o <<" ">> \o TextHi, BotMention}

AppAuthors == Users \cup {BotUserId}

NextApp ==
  \/ \E e \in EventIds, author \in AppAuthors, channel \in Channels \cup DirectChannels,
        text \in AppTexts :
       MessageEvent(e, author, channel, text)
  \/ \E e \in EventIds, author \in AppAuthors, channel \in Channels \cup DirectChannels,
        text \in AppTexts :
       AppMentionEvent(e, author, channel, text)
  \/ \E c \in CallIds : CompleteOk(c, TextOk)
  \/ \E c \in CallIds : CompleteFail(c)

SpecApp == InitChat /\ [][NextApp]_vars

\* the calls of generateResponse made for the inbound message e
CallsFor(e) == {c \in CallIds : calls[c].event = e}

\* the replies the handlers posted for the inbound message e: one for each
\* call that settled (the response, or the apology when it rejected) and one
\* for each reply made without a call
Replies(e) ==
  Cardinality({c \in CallsFor(e) : calls[c].pc \in {"resolved", "rejected"}})
    + inbound[e].said

\* C24. generateResponse is called, and a reply posted, only for inbound
\* messages whose author is the configured MY_USER_ID.
C24_OwnerOnly ==
  /\ \A c \in CallIds : calls[c].via # "none" => calls[c].userId = MyUserId
  /\ \A e \in EventIds : Replies(e) > 0 => inbound[e].author = MyUserId

\* C25. One inbound channel message that mentions the bot, delivered as a
\* message event and as an app_mention event, results in at most one
\* generateResponse call and at most one reply.
C25_NoDuplicate ==
  \A e \in EventIds : Cardinality(CallsFor(e)) <= 1 /\ Replies(e) <= 1

----------------------------------------------------------------------------
(* SpecChannel: the channel-wide history under many appends and sweeps *)

\* a caller appends a message stamped Date.now(); the channel-wide map before
\* the call is kept for comparison
ChannelAddMessage(ch, u) ==
  LET message == [role |-> "user", content |-> TextHi, timestamp |-> now, userId |-> u]
      after == addMessage(contexts, channelContexts, ch, u, message, FALSE, cfg)
  IN /\ lastOp.appends[u] < MaxChannelAppends
     /\ contexts' = after.contexts
     /\ channelContexts' = after.channelContexts
     /\ lastOp' = StoreOp("addMessage", getContextKey(ch, u), now, 0, <<>>,
                          channelContexts, <<>>, [lastOp.appends EXCEPT ![u] = @ + 1])
     /\ UNCHANGED <<cfg, command, search, gate, inbound, now, ticks, appended, svcVars, cacheVars>>

NextChannel ==
  \/ \E ch \in Channels, u \in SweepWriters : ChannelAddMessage(ch, u)
  \/ StoreCleanup
  \/ StoreTick(DefaultMaxAge)

SpecChannel == InitStore /\ [][NextChannel]_vars

\* the channel-wide list of channel ch in the map chans
ChannelList(chans, ch) == IF ch \in DOMAIN chans THEN chans[ch] ELSE <<>>

\* C27. After any addMessage the channel-wide list of the channel is the last
\* 50 entries at most of the list before with the message appended; after any
\* cleanupOldContexts every channel-wide list has at most 30 entries, all
\* younger than maxAge, the most recent ones in insertion order, and no channel
\* is left with an empty list.
C27_ChannelBounded ==
  /\ \A ch \in DOMAIN channelContexts : Len(channelContexts[ch]) <= ChannelMax
  /\ lastOp.op = "addMessage" =>
       LET ch == lastOp.key[1]
           list == channelContexts[ch]
           before == ChannelList(lastOp.beforeChannels, ch)
       IN /\ Len(list) = Min(ChannelMax, Len(before) + 1)
          /\ list[Len(list)].timestamp = lastOp.at
          /\ IsSuffix(SubSeq(list, 1, Len(list) - 1), before)
  /\ lastOp.op = "cleanupOldContexts" =>
       /\ \A ch \in DOMAIN channelContexts :
            LET list == channelContexts[ch]
                young == YoungerThan(ChannelList(lastOp.beforeChannels, ch), lastOp.at,
                                     lastOp.maxAge)
            IN /\ list # <<>>
               /\ Len(list) = Min(SweepKeep, Len(young))
               /\ IsSuffix(list, young)
               /\ \A i \in 1..Len(list) : lastOp.at - list[i].timestamp < lastOp.maxAge
       /\ \A ch \in DOMAIN lastOp.beforeChannels :
            ch \notin DOMAIN channelContexts
              => YoungerThan(lastOp.beforeChannels[ch], lastOp.at, lastOp.maxAge) = <<>>

\* an append dropped the oldest entry of a full channel-wide list
C27_Witness ==
  /\ lastOp.op = "addMessage"
  /\ Len(ChannelList(lastOp.beforeChannels, lastOp.key[1])) = ChannelMax
  /\ Len(channelContexts[lastOp.key[1]]) = ChannelMax

\* a sweep cut a channel-wide list for age and for the cap, or removed it
C27_SweepWitness ==
  /\ lastOp.op = "cleanupOldContexts"
  /\ \E ch \in DOMAIN lastOp.beforeChannels :
       LET young == YoungerThan(lastOp.beforeChannels[ch], lastOp.at, lastOp.maxAge)
       IN /\ Len(young) < Len(lastOp.beforeChannels[ch])
          /\ Len(young) > SweepKeep
          /\ Len(channelContexts[ch]) = SweepKeep

----------------------------------------------------------------------------
(* SpecSticky: calls, failovers and switches of the active provider *)

StickyMessages == {TextHi}
StickyResponses == {TextOk}

NextSticky ==
  \/ \E c \in CallIds, m \in StickyMessages, ch \in Channels, u \in Users :
       Start(c, m, ch, u)
  \/ \E c \in CallIds, r \in StickyResponses : CompleteOk(c, r)
  \/ \E c \in CallIds : CompleteFail(c)
  \/ \E p \in Range(ProviderOrder) : SetActiveProvider(p)

SpecSticky == InitChat /\ [][NextSticky]_vars

\* call c is made in this step
StartsIn(c) == calls[c].pc = "idle" /\ calls'[c].pc # "idle"

\* C28. Sticky failover: a failover makes the alternate the active provider,
\* and the active provider then stays: a later generateResponse call leaves it
\* as it is and goes to it, and only setActiveProvider or another failover
\* changes it.
C28_StickyFailover ==
  [][/\ \A c \in CallIds :
          (CompleteFail(c) /\ getFallbackProvider(providers, activeProvider) # NoProvider)
            => activeProvider' = getFallbackProvider(providers, activeProvider)
     /\ \A c \in CallIds :
          StartsIn(c) =>
            /\ activeProvider' = activeProvider
            /\ calls'[c].pc = "await" => calls'[c].prov = activeProvider
     /\ activeProvider' # activeProvider =>
          \/ \E c \in CallIds : CompleteFail(c)
          \/ \E p \in Range(providers) : SetActiveProvider(p)]_vars

\* a call made after another call's failover went to the alternate, which is
\* still active and is not the configured default
C28_Witness ==
  \E c, d \in CallIds :
    /\ calls[c].pc = "resolved"
    /\ calls[c].failedOn = cfg.defaultProvider
    /\ calls[c].failedActive
    /\ calls[d].after = c
    /\ calls[d].pc = "resolved"
    /\ calls[d].failedOn = NoProvider
    /\ calls[d].provider = calls[c].provider
    /\ activeProvider = calls[c].provider
    /\ activeProvider # cfg.defaultProvider
    /\ lastSwitch.op = "none"

----------------------------------------------------------------------------
(* SpecHit: the AIService with a cache ttl longer than the channel window *)

LongTtl == 2 * OneHour

HitMessages == {TextHi}
HitResponses == {TextOk}

InitHit ==
  /\ now = 0
  /\ ticks = 0
  /\ CtxIdle
  /\ CacheIdle
  /\ AppIdle
  /\ cfg = [ServiceConfig("openai") EXCEPT !.ttl = LongTtl]
  /\ providers = ProviderOrder
  /\ activeProvider = InitialProvider(providers, cfg.defaultProvider)
  /\ calls = [c \in CallIds |-> IdleCall]
  /\ lastDone = 0
  /\ lastSwitch = NoSwitch

NextHit ==
  \/ \E c \in CallIds, m \in HitMessages, ch \in Channels, u \in Users : Start(c, m, ch, u)
  \/ \E c \in CallIds, r \in HitResponses : CompleteOk(c, r)
  \/ \E c \in CallIds : CompleteFail(c)
  \/ ChatTick(OneHour)

SpecHit == InitHit /\ [][NextHit]_vars

\* call c is answered from the cache in this step
HitIn(c) == calls[c].pc # "resolved" /\ calls'[c].pc = "resolved" /\ calls'[c].cached

\* C29. Cache hit frame: a step in which generateResponse is answered from the
\* cache invokes no provider and leaves every conversation's message list and
\* the channel-wide history as they were.
C29_HitFrame ==
  [][\A c \in CallIds :
       HitIn(c) =>
         /\ calls'[c].attempts = calls[c].attempts
         /\ calls'[c].prov = calls[c].prov
         /\ \A d \in CallIds \ {c} : calls'[d] = calls[d]
         /\ \A k \in Keys : MessagesOf(contexts', k) = MessagesOf(contexts, k)
         /\ channelContexts' = channelContexts
         /\ appended' = appended]_vars

\* a call was answered from the cache without any provider invoked for it, and
\* its conversation holds no message
C29_Witness ==
  \E c \in CallIds :
    /\ calls[c].pc = "resolved"
    /\ calls[c].cached
    /\ calls[c].attempts = 0
    /\ calls[c].prov = NoProvider
    /\ calls[c].content = TextOk
    /\ MessagesOf(contexts, getContextKey(calls[c].channel, calls[c].userId)) = <<>>
    /\ channelContexts # <<>>

----------------------------------------------------------------------------
(* the failure path of generateResponse (Spec) *)

\* nothing is appended to a conversation or a channel-wide history, and no
\* cache entry is written, in this step
NothingWritten ==
  /\ \A k \in Keys : MessagesOf(contexts', k) = MessagesOf(contexts, k)
  /\ channelContexts' = channelContexts
  /\ appended' = appended
  /\ \A i \in 1..Len(cache') : \E j \in 1..Len(cache) : cache'[i] = cache[j]

\* call c is rejected in this step
RejectsIn(c) == calls[c].pc # "rejected" /\ calls'[c].pc = "rejected"

\* C30. Failure frame: a generateResponse call that rejects has appended no
\* message to any conversation or channel history and has written no cache
\* entry: it is rejected at its entry or at a provider failure, never after its
\* provider completion succeeded, and neither its entry nor any of its provider
\* failures writes anything.
C30_FailureFrame ==
  [][\A c \in CallIds :
       /\ RejectsIn(c) => (StartsIn(c) \/ CompleteFail(c))
       /\ (StartsIn(c) \/ CompleteFail(c)) => NothingWritten
       /\ calls[c].pc = "resolved" => calls'[c].pc = "resolved"]_vars

\* a call was rejected after its provider failed with no alternate registered,
\* while another call's exchange is in a conversation and in the cache
C30_Witness ==
  \E c, d \in CallIds :
    /\ calls[c].pc = "rejected"
    /\ calls[c].failedOn # NoProvider
    /\ calls[c].attempts = 1
    /\ calls[d].pc = "resolved"
    /\ getContextKey(calls[d].channel, calls[d].userId)
         # getContextKey(calls[c].channel, calls[c].userId)
    /\ MessagesOf(contexts, getContextKey(calls[c].channel, calls[c].userId)) = <<>>
    /\ Len(MessagesOf(contexts, getContextKey(calls[d].channel, calls[d].userId))) = 2
    /\ Len(cache) = 1

\* a call was rejected at its entry because no provider is active
C30_NoProviderWitness ==
  \E c \in CallIds :
    /\ calls[c].pc = "rejected"
    /\ calls[c].failedOn = NoProvider
    /\ calls[c].attempts = 0
    /\ activeProvider = NoProvider
    /\ \A k \in Keys : MessagesOf(contexts, k) = <<>>
    /\ cache = <<>>

----------------------------------------------------------------------------
(* the cache key and the requester (SpecHit) *)

\* two conversations agree on what the fingerprint is said to depend on
SameFingerprintInputs(a, b) ==
  /\ a.channel = b.channel
  /\ a.isDirectMessage = b.isDirectMessage
  /\ RecentOf(a.messages) = RecentOf(b.messages)
  /\ a.metadata = b.metadata

\* C31. Cache key ignores the requester: for every prompt, two stored
\* conversations that agree on channel, DM flag, the role and first 100
\* characters of their last three messages and metadata have the same cache
\* key, whoever their users are; and a call answered from the cache carries the
\* content of an entry whose key is the key of its own prompt and conversation.
C31_KeyIgnoresRequester ==
  /\ \A k1, k2 \in DOMAIN contexts : \A p \in HitMessages :
       SameFingerprintInputs(contexts[k1], contexts[k2])
         => generateCacheKey(p, contexts[k1]) = generateCacheKey(p, contexts[k2])
  /\ \A c \in CallIds :
       (calls[c].pc = "resolved" /\ calls[c].cached) =>
         \E d \in CallIds \ {c} :
           /\ calls[d].pc = "resolved"
           /\ ~calls[d].cached
           /\ calls[d].channel = calls[c].channel
           /\ calls[d].prompt = calls[c].prompt
           /\ calls[d].content = calls[c].content

\* a response generated for U1 was served from the cache to U2 in the same
\* channel, their conversations agreeing on all the key looks at
C31_Witness ==
  \E c, d \in CallIds :
    /\ calls[d].pc = "resolved" /\ ~calls[d].cached /\ calls[d].userId = "U1"
    /\ calls[c].pc = "resolved" /\ calls[c].cached /\ calls[c].userId = "U2"
    /\ calls[c].channel = calls[d].channel
    /\ calls[c].content = calls[d].content
    /\ getContextKey(calls[c].channel, "U2") \in DOMAIN contexts
    /\ generateCacheKey(calls[c].prompt, contexts[getContextKey(calls[c].channel, "U2")])
         \in {cache[i].key : i \in 1..Len(cache)}

----------------------------------------------------------------------------
(* the newest message of a conversation (SpecCtx) *)

\* C32. Newest message retained: right after addMessage(channel, user, m) the
\* conversation's message list is non-empty and its last element is m, for
\* every configured maxMessages >= 1 and maxTokens.
C32_NewestRetained ==
  [][\A ch \in Channels, u \in Users, m \in CtxMessages :
       CtxAddMessage(ch, u, m[1], m[2]) =>
         LET messages == MessagesOf(contexts', getContextKey(ch, u)) IN
         /\ messages # <<>>
         /\ messages[Len(messages)].role = m[1]
         /\ messages[Len(messages)].content = m[2]
         /\ messages[Len(messages)].timestamp = now]_vars

----------------------------------------------------------------------------
(* SpecClear: the AIService with conversations cleared and swept while calls *)
(* are in flight                                                              *)

ClearMessages == {TextHi}
ClearResponses == {TextOk}

\* the calls after the conversations of gone were deleted from the store: a
\* call awaiting its provider keeps the context object it was given
Detach(gone) ==
  [c \in CallIds |->
     LET key == getContextKey(calls[c].channel, calls[c].userId) IN
     IF calls[c].pc = "await" /\ ~calls[c].detached /\ key \in gone
     THEN [calls[c] EXCEPT !.detached = TRUE, !.held = contexts[key]]
     ELSE calls[c]]

\* AIService.clearContext(channelId, userId)
ServiceClearContext(ch, u) ==
  LET key == getContextKey(ch, u) IN
  /\ key \in DOMAIN contexts
  /\ contexts' = clearContext(contexts, ch, u)
  /\ calls' = Detach({key})
  /\ appended' = [appended EXCEPT ![key] = <<>>]
  /\ UNCHANGED <<cfg, command, search, gate, inbound, now, ticks, channelContexts, providers, activeProvider,
                 cache, useClock, lastCacheOp, lastOp, lastSwitch, lastDone>>

\* the hourly timer and AIService.cleanup: the sweep with the default maxAge
ServiceCleanup ==
  LET after == cleanupOldContexts(contexts, channelContexts, now, DefaultMaxAge)
      gone == DOMAIN contexts \ DOMAIN after.contexts
  IN /\ gone # {}
     /\ contexts' = after.contexts
     /\ channelContexts' = after.channelContexts
     /\ calls' = Detach(gone)
     /\ appended' = [k \in Keys |-> IF k \in gone THEN <<>> ELSE appended[k]]
     /\ UNCHANGED <<cfg, command, search, gate, inbound, now, ticks, providers, activeProvider,
                    cache, useClock, lastCacheOp, lastOp, lastSwitch, lastDone>>

NextClear ==
  \/ \E c \in CallIds, m \in ClearMessages, ch \in Channels, u \in Users : Start(c, m, ch, u)
  \/ \E c \in CallIds, r \in ClearResponses : CompleteOk(c, r)
  \/ \E c \in CallIds : CompleteFail(c)
  \/ \E ch \in Channels, u \in Users : ServiceClearContext(ch, u)
  \/ ServiceCleanup

SpecClear == InitChat /\ [][NextClear]_vars

\* C33. clearContext frame: clearContext(channelId, userId) removes the entry
\* of that channel and user only: the channel-wide history and every other
\* conversation are unchanged, getChannelContext returns what it returned
\* before, and a generateResponse call that goes on to its provider attaches
\* the channel's messages of the last hour as metadata.channelContext.
C33_ClearFrame ==
  [][/\ \A ch \in Channels, u \in Users :
          ServiceClearContext(ch, u) =>
            /\ DOMAIN contexts' = DOMAIN contexts \ {getContextKey(ch, u)}
            /\ \A k \in DOMAIN contexts' : contexts'[k] = contexts[k]
            /\ channelContexts' = channelContexts
            /\ getChannelContext(channelContexts', ch, now')
                 = getChannelContext(channelContexts, ch, now)
     /\ \A c \in CallIds :
          (StartsIn(c) /\ calls'[c].pc = "await") =>
            LET key == getContextKey(calls'[c].channel, calls'[c].userId)
                channelMessages == getChannelContext(channelContexts, calls'[c].channel, now)
            IN channelMessages # <<>> =>
                 /\ contexts'[key].metadata.hasChannelContext
                 /\ contexts'[key].metadata.channelContext = channelMessages]_vars

\* a call made after its user's conversation was cleared is at its provider
\* with an empty conversation, and the user message of the cleared
\* conversation is in the channelContext attached to it
C33_Witness ==
  \E c \in CallIds :
    LET key == getContextKey(calls[c].channel, calls[c].userId) IN
    /\ calls[c].pc = "await"
    /\ ~calls[c].detached
    /\ key \in DOMAIN contexts
    /\ contexts[key].messages = <<>>
    /\ contexts[key].metadata.hasChannelContext
    /\ \E i \in 1..Len(contexts[key].metadata.channelContext) :
         /\ contexts[key].metadata.channelContext[i].userId = calls[c].userId
         /\ contexts[key].metadata.channelContext[i].role = "user"


\* C34. Clear versus in-flight generation: when the conversation of a call was
\* cleared or swept away while the call awaited its provider, the completion of
\* the call leaves no message of its turn in the conversation: every message
\* the conversation then holds was in it before the completion.
C34_ClearedTurnDropped ==
  [][\A c \in CallIds, r \in ClearResponses :
       (CompleteOk(c, r) /\ calls[c].detached) =>
         LET key == getContextKey(calls[c].channel, calls[c].userId) IN
         IsSuffix(MessagesOf(contexts', key), MessagesOf(contexts, key))]_vars

----------------------------------------------------------------------------
(* the channel snapshot a provider is given (SpecChat) *)

\* C35. Fresh channel snapshot per turn: when a generateResponse call invokes
\* its provider, the channelContext in the metadata of its context, if there
\* is one, is the channel's messages of the last hour as computed at the start
\* of that call; a snapshot of an earlier turn is not handed on when the
\* channel view is empty.
C35_FreshSnapshot ==
  [][\A c \in CallIds :
       (StartsIn(c) /\ calls'[c].pc = "await") =>
         LET key == getContextKey(calls'[c].channel, calls'[c].userId)
             view == getChannelContext(channelContexts, calls'[c].channel, now)
             metadata == contexts'[key].metadata
         IN metadata.hasChannelContext => metadata.channelContext = view]_vars

----------------------------------------------------------------------------
(* the skip predicate and templated prompts (SpecTemplate) *)

C36_OtherTemplateWitness ==
  \E c \in CallIds :
    /\ calls[c].templateId = "direct_message"
    /\ calls[c].pc = "resolved"
    /\ Len(cache) = 1
    /\ cache[1].key.prompt = calls[c].prompt

----------------------------------------------------------------------------
(* SpecCommand: the /pup slash command handler of the application *)

\* the provider keys present in the environment at startup
CommandEnvironments ==
  {{"openai"}, {"openai", "anthropic"}, {"anthropic", "gemini"},
   {"openai", "anthropic", "gemini"}}

\* initializeAIService: the defaultProvider it configures for the keys present
AppDefaultProvider(configured) ==
  IF "gemini" \in configured THEN "gemini"
  ELSE IF "openai" \in configured THEN "openai"
  ELSE "anthropic"

\* initializeAIService: the service is constructed and Gemini, when it is
\* registered, is made the active provider
InitCommand ==
  /\ now = 0
  /\ ticks = 0
  /\ CtxIdle
  /\ CacheIdle
  /\ AppIdle
  /\ \E configured \in CommandEnvironments :
       /\ cfg = ServiceConfig(AppDefaultProvider(configured))
       /\ providers = initializeProviders(configured)
       /\ activeProvider =
            IF "gemini" \in Range(providers) THEN "gemini"
            ELSE InitialProvider(providers, cfg.defaultProvider)
  /\ calls = [c \in CallIds |-> IdleCall]
  /\ lastDone = 0
  /\ lastSwitch = NoSwitch

\* the query of /pup test-gemini
TestQuery ==
  <<"W", "h", "a", "t", "'", "s", " ", "t", "h", "e", " ", "c", "u", "r", "r", "e", "n",
    "t", " ", "w", "e", "a", "t", "h", "e", "r", " ", "i", "n", " ", "S", "a", "n", " ",
    "F", "r", "a", "n", "c", "i", "s", "c", "o", "?">>

\* the provider test-gemini switches back to: openai when an OpenAI or Lambda
\* key is present, anthropic otherwise
RestoreTarget == IF "openai" \in Range(providers) THEN "openai" ELSE "anthropic"

\* mutant: every requester is let through
Authorized_anyone(u) == TRUE

\* command.user_id === config.MY_USER_ID
Authorized(u) == u = MyUserId

SyncSubcommands == {"clear cache", "clear context", "provider", "help"}
ProviderArgs == Range(ProviderOrder)

\* a command that has ended: the handler is idle again
Ended(outcome) == [NoCommand EXCEPT !.outcome = outcome, !.done = command.done + 1]

\* /pup clear cache, /pup clear context, /pup provider <arg>, /pup help (and
\* status, test): handled in one step once the command is acknowledged
PupCommand(u, ch, sub, arg) ==
  /\ command.pc = "idle"
  /\ command.done < MaxCommands
  /\ sub \in SyncSubcommands
  /\ sub # "provider" => arg = "none"
  /\ sub = "provider" => arg \in ProviderArgs
  /\ IF ~Authorized(u)
     THEN /\ command' = Ended("refused")
          /\ UNCHANGED <<contexts, appended, calls, cache, activeProvider, lastSwitch>>
     ELSE /\ command' = Ended(IF sub = "provider" /\ arg \notin Range(providers)
                              THEN "failed" ELSE "ok")
          /\ cache' = IF sub = "clear cache" THEN <<>> ELSE cache
          /\ contexts' = IF sub = "clear context" THEN clearContext(contexts, ch, u)
                         ELSE contexts
          /\ calls' = IF sub = "clear context"
                      THEN Detach({getContextKey(ch, u)} \cap DOMAIN contexts)
                      ELSE calls
          /\ appended' = IF sub = "clear context"
                         THEN [appended EXCEPT ![getContextKey(ch, u)] = <<>>]
                         ELSE appended
          /\ IF sub = "provider"
             THEN LET registered == arg \in Range(providers) IN
                  /\ activeProvider' = IF registered THEN arg ELSE activeProvider
                  /\ lastSwitch' = [op |-> "setActiveProvider", requested |-> arg,
                                    threw |-> ~registered,
                                    activeBefore |-> activeProvider]
             ELSE UNCHANGED <<activeProvider, lastSwitch>>
  /\ UNCHANGED <<cfg, search, gate, inbound, now, ticks, channelContexts, providers, useClock,
                 lastCacheOp, lastOp, lastDone>>

\* /pup test-gemini up to its first say: the switch to Gemini when another
\* provider is active; setActiveProvider throws when Gemini is not registered
\* and the catch block reports it
TestGeminiBegin(u, ch) ==
  LET wasGemini == activeProvider = "gemini"
      registered == "gemini" \in Range(providers)
  IN /\ command.pc = "idle"
     /\ command.done < MaxCommands
     /\ IF ~Authorized(u)
        THEN /\ command' = Ended("refused")
             /\ UNCHANGED <<activeProvider, lastSwitch>>
        ELSE IF ~wasGemini /\ ~registered
        THEN /\ command' = Ended("failed")
             /\ lastSwitch' = [op |-> "setActiveProvider", requested |-> "gemini",
                               threw |-> TRUE, activeBefore |-> activeProvider]
             /\ UNCHANGED activeProvider
        ELSE /\ command' = [command EXCEPT !.pc = "saying", !.user = u, !.channel = ch,
                                           !.sub = "test-gemini", !.arg = "none",
                                           !.call = 0,
                                           !.wasGemini = wasGemini,
                                           !.activeBefore = activeProvider,
                                           !.outcome = "none"]
             /\ activeProvider' = "gemini"
             /\ lastSwitch' = IF wasGemini THEN lastSwitch
                              ELSE [op |-> "setActiveProvider", requested |-> "gemini",
                                    threw |-> FALSE, activeBefore |-> activeProvider]
     /\ UNCHANGED <<cfg, search, gate, inbound, now, ticks, contexts, channelContexts, appended,
                    providers, calls, cache, useClock, lastCacheOp, lastOp, lastDone>>

\* test-gemini after its first say: generateResponse(testQuery, channel, user)
TestGeminiGenerate(c) ==
  /\ command.pc = "saying"
  /\ calls[c].pc = "idle"
  /\ \A d \in CallIds : d < c => calls[d].pc # "idle"
  /\ Enter(c, [calls[c] EXCEPT !.message = TestQuery, !.channel = command.channel,
                               !.userId = command.user, !.after = lastDone,
                               !.via = "test-gemini"], activeProvider)
  /\ command' = [command EXCEPT !.pc = "await", !.call = c]
  /\ UNCHANGED <<cfg, search, gate, inbound, now, ticks, channelContexts, appended, providers,
                 activeProvider, lastCacheOp, lastOp, lastSwitch>>

\* test-gemini after generateResponse settled: the response is reported, or
\* the catch block reports the error and the command ends
TestGeminiReport ==
  /\ command.pc = "await"
  /\ calls[command.call].pc \in {"resolved", "rejected"}
  /\ command' = IF calls[command.call].pc = "resolved"
                THEN [command EXCEPT !.pc = "reporting"]
                ELSE Ended("failed")
  /\ UNCHANGED <<cfg, search, gate, inbound, now, ticks, ctxVars, cacheVars, providers,
                 activeProvider, calls, lastDone, lastSwitch>>

\* test-gemini after its report: the provider is switched back when the
\* command had switched; a throwing setActiveProvider is caught and reported
TestGeminiRestore ==
  LET registered == RestoreTarget \in Range(providers)
      switches == ~command.wasGemini
  IN /\ command.pc = "reporting"
     /\ command' = Ended(IF switches /\ ~registered THEN "failed" ELSE "ok")
     /\ activeProvider' = IF switches /\ registered THEN RestoreTarget
                          ELSE activeProvider
     /\ lastSwitch' = IF switches
                      THEN [op |-> "setActiveProvider", requested |-> RestoreTarget,
                            threw |-> ~registered, activeBefore |-> activeProvider]
                      ELSE lastSwitch
     /\ UNCHANGED <<cfg, search, gate, inbound, now, ticks, ctxVars, cacheVars, providers, calls,
                    lastDone>>

CommandMessages == {TextHi}
CommandResponses == {TextOk}

NextCommand ==
  \/ \E u \in Users, ch \in Channels, sub \in SyncSubcommands,
        arg \in ProviderArgs \cup {"none"} : PupCommand(u, ch, sub, arg)
  \/ \E u \in Users, ch \in Channels : TestGeminiBegin(u, ch)
  \/ \E c \in CallIds : TestGeminiGenerate(c)
  \/ TestGeminiReport
  \/ TestGeminiRestore
  \/ \E c \in CallIds, m \in CommandMessages, ch \in Channels, u \in Users : Start(c, m, ch, u)
  \/ \E c \in CallIds, r \in CommandResponses : CompleteOk(c, r)
  \/ \E c \in CallIds : CompleteFail(c)

SpecCommand == InitCommand /\ [][NextCommand]_vars


\* C37. Admin authorization: a /pup clear cache, clear context, provider or
\* test-gemini command from a requester other than MY_USER_ID leaves the cache,
\* the context store, the active provider and the calls unchanged.
C37_AdminOnly ==
  [][\A u \in Users \ {MyUserId}, ch \in Channels :
       (\/ \E sub \in SyncSubcommands, arg \in ProviderArgs \cup {"none"} :
             PupCommand(u, ch, sub, arg)
        \/ TestGeminiBegin(u, ch))
         => /\ UNCHANGED <<cache, contexts, channelContexts, appended, activeProvider,
                           calls, providers>>
            /\ command'.pc = "idle"
            /\ command'.outcome = "refused"]_vars

\* a command was refused while the cache held an entry and a conversation
\* held an exchange
C37_Witness ==
  /\ command.done = 1
  /\ command.outcome = "refused"
  /\ Len(cache) = 1
  /\ \E k \in DOMAIN contexts : Len(contexts[k].messages) = 2

\* the owner's clear cache command has emptied the cache
C37_OwnerWitness ==
  /\ command.done = 1
  /\ command.outcome = "ok"
  /\ cache = <<>>
  /\ activeProvider # NoProvider
  /\ \E c \in CallIds :
       /\ calls[c].pc = "resolved"
       /\ ~calls[c].cached
       /\ calls[c].message = TextHi
  /\ \A k \in Keys : Len(MessagesOf(contexts, k)) \in {0, 2}
  /\ lastSwitch = NoSwitch

----------------------------------------------------------------------------
(* setActiveProvider and unregistered names (SpecSwitch) *)

\* C38. Rejected provider switch: setActiveProvider(name) with a name that is
\* not registered throws and leaves the active provider, the cache and the
\* context store unchanged; with a registered name it makes exactly that
\* provider active.
C38_RejectedSwitch ==
  [][\A p \in Range(ProviderOrder) :
       SetActiveProvider(p) =>
         /\ p \in Range(providers) =>
              /\ activeProvider' = p
              /\ ~lastSwitch'.threw
         /\ p \notin Range(providers) =>
              /\ activeProvider' = activeProvider
              /\ lastSwitch'.threw
         /\ UNCHANGED <<cache, contexts, channelContexts, providers, calls>>]_vars

\* a switch to an unregistered provider was refused while a call awaited the
\* active provider, which is still the active one
C38_Witness ==
  /\ lastSwitch.op = "setActiveProvider"
  /\ lastSwitch.threw
  /\ lastSwitch.requested \notin Range(providers)
  /\ Len(providers) >= 1
  /\ activeProvider = lastSwitch.activeBefore
  /\ \E c \in CallIds : calls[c].pc = "await" /\ calls[c].prov = activeProvider

\* a switch to a registered provider other than the active one was made
C38_SwitchedWitness ==
  /\ lastSwitch.op = "setActiveProvider"
  /\ ~lastSwitch.threw
  /\ lastSwitch.requested # lastSwitch.activeBefore
  /\ activeProvider = lastSwitch.requested


\* the /pup test-gemini command ends in this step
TestGeminiEnds ==
  /\ command.pc \in {"await", "reporting"}
  /\ command'.pc = "idle"

\* C40. test-gemini restores the provider: when a /pup test-gemini command
\* finishes, whether its generation succeeded or failed, the active provider
\* is the provider that was active when the command was issued.
C40_TestGeminiRestores ==
  [][TestGeminiEnds => activeProvider' = command.activeBefore]_vars

----------------------------------------------------------------------------
(* SpecSearch: WebSearchService.search *)

\* the backends in the order search tries them
Backends == <<"brave", "google", "serpapi">>

\* a UTF-16 code unit that is half of a surrogate pair, on its own
LoneSurrogate == "<D800>"

\* encodeURIComponent: throws URIError on a lone surrogate; a space is escaped
encodeURIComponent(text) ==
  [threw |-> \E i \in 1..Len(text) : text[i] = LoneSurrogate,
   text |-> [i \in 1..Len(text) |-> IF text[i] = " " THEN "%20" ELSE text[i]]]

\* Array.prototype.slice(0, end)
SliceTo(s, end) ==
  LET stop == IF end < 0 THEN (IF Len(s) + end < 0 THEN 0 ELSE Len(s) + end)
              ELSE Min(end, Len(s))
  IN SubSeq(s, 1, stop)

TextNba == <<"n", "b", "a">>
TextBasketball == <<"b", "a", "s", "k", "e", "t", "b", "a", "l", "l">>

NbaSites == <<"Basketball Reference", "NBA.com Stats", "ESPN NBA">>

\* options.numResults || 5
ResultCount(numResults) == IF numResults = 0 THEN 5 ELSE numResults

\* fallbackSearch: [threw, results]
fallbackSearch(query, numResults) ==
  IF Contains(query, TextNba) \/ Contains(query, TextBasketball)
  THEN LET encoded == encodeURIComponent(query)
           results == [i \in 1..Len(NbaSites) |->
                         [title |-> NbaSites[i], url |-> encoded.text]]
       IN IF encoded.threw THEN [threw |-> TRUE, results |-> <<>>]
          ELSE [threw |-> FALSE, results |-> SliceTo(results, ResultCount(numResults))]
  ELSE [threw |-> FALSE,
        results |-> <<[title |-> "Web search requires Google API configuration",
                      url |-> <<>>]>>]

\* the first backend after position i that is configured, or 0
NextBackend(keys, i) ==
  IF \E j \in (i + 1)..Len(Backends) : Backends[j] \in keys
  THEN CHOOSE j \in (i + 1)..Len(Backends) :
         /\ Backends[j] \in keys
         /\ \A k \in (i + 1)..(j - 1) : Backends[k] \notin keys
  ELSE 0

\* the position of a backend in the order
BackendIndex(name) == CHOOSE i \in 1..Len(Backends) : Backends[i] = name

\* search goes on after position i with no results so far: the next configured
\* backend is awaited, or the fallback is run
Proceed(rec, i) ==
  LET j == NextBackend(rec.keys, i) IN
  IF j # 0 THEN [rec EXCEPT !.pc = Backends[j]]
  ELSE LET fb == fallbackSearch(rec.query, rec.numResults) IN
       IF ~fb.threw THEN [rec EXCEPT !.pc = "returned", !.results = fb.results]
       ELSE \* the catch block runs fallbackSearch again
            LET again == fallbackSearch(rec.query, rec.numResults) IN
            [rec EXCEPT !.caught = TRUE,
                        !.pc = IF again.threw THEN "threw" ELSE "returned",
                        !.results = again.results]

SearchQueries ==
  { <<"h", "i">>, TextNba, <<"N", "B", "A", " ", "m", "v", "p">>,
    <<"n", "b", "a", LoneSurrogate>>, <<"h", "i", LoneSurrogate>> }
SearchCounts == {0, 3, 0 - 3}
SearchKeys == SUBSET Range(Backends)

\* what a backend hands back: its results, or nothing (also when its request
\* failed, which the backend catches)
BackendResults == {<<>>, <<[title |-> "r1", url |-> <<>>], [title |-> "r2", url |-> <<>>]>>}

\* search(query, {numResults}) up to its first await
SearchBegin(query, numResults, keys) ==
  /\ search.pc = "idle"
  /\ search' = Proceed([NoSearch EXCEPT !.query = query, !.numResults = numResults,
                                        !.keys = keys], 0)
  /\ UNCHANGED <<cfg, gate, inbound, command, now, ticks, ctxVars, svcVars, cacheVars>>

\* the awaited backend returns
BackendReturns(results) ==
  /\ search.pc \in Range(Backends)
  /\ LET rec == [search EXCEPT !.tried = Append(@, <<search.pc, results # <<>>>>)] IN
     search' = IF results # <<>>
               THEN [rec EXCEPT !.pc = "returned", !.results = results]
               ELSE Proceed(rec, BackendIndex(search.pc))
  /\ UNCHANGED <<cfg, gate, inbound, command, now, ticks, ctxVars, svcVars, cacheVars>>

InitSearch ==
  /\ cfg = Config(AppContextLimit, ServiceMaxTokens, AppTtl, AppMaxSize, TRUE)
  /\ now = 0
  /\ ticks = 0
  /\ CtxIdle
  /\ SvcIdle
  /\ CacheIdle
  /\ AppIdle

NextSearch ==
  \/ \E q \in SearchQueries, n \in SearchCounts, keys \in SearchKeys : SearchBegin(q, n, keys)
  \/ \E r \in BackendResults : BackendReturns(r)

SpecSearch == InitSearch /\ [][NextSearch]_vars

\* C39. Search cascade totality: WebSearchService.search never throws and
\* never returns an empty list.
C39_SearchTotal ==
  /\ search.pc # "threw"
  /\ search.pc = "returned" => search.results # <<>>

\* the part of C39 about the order: the backends called are configured, are
\* called in the order Brave, Google, SerpAPI, each after all earlier ones
\* returned nothing, and what is returned is the first backend's non-empty
\* results
C39_CascadeOrder ==
  /\ \A i \in 1..Len(search.tried) :
       /\ search.tried[i][1] \in search.keys
       /\ i < Len(search.tried) => ~search.tried[i][2]
       /\ \A j \in 1..Len(search.tried) :
            i < j => BackendIndex(search.tried[i][1]) < BackendIndex(search.tried[j][1])
  /\ (search.pc = "returned" /\ search.tried # <<>>
        /\ search.tried[Len(search.tried)][2])
       => search.results \in BackendResults
  /\ (search.pc \in {"returned", "threw"}
        /\ (search.tried = <<>> \/ ~search.tried[Len(search.tried)][2]))
       => {search.tried[i][1] : i \in 1..Len(search.tried)} = search.keys

\* all three backends were tried in order, returned nothing, and the static
\* fallback produced the result
C39_CascadeWitness ==
  /\ search.pc = "returned"
  /\ Len(search.tried) = 3
  /\ search.results # <<>>
  /\ search.results \notin BackendResults

====
